---- MODULE Spec2Model ----
(***************************************************************************)
(* A model of the batch ETL pipeline of "Day 10_Data Warehouse Modeling":  *)
(* the data-quality engine (scripts/utils/data_quality.py), the transform  *)
(* step (scripts/etl/transform.py), the dimensional loader                 *)
(* (scripts/etl/load.py) and the pipeline driver (main.py).                *)
(*                                                                         *)
(* Three specifications share the module:                                  *)
(*   SpecLoad  calls of the two loader methods on one row-set, each call   *)
(*             possibly cut short by a failing database statement;         *)
(*   SpecDQ    the DataQuality methods in the order transform_data calls   *)
(*             them, on one dataset;                                       *)
(*   SpecPipe  one run of DataPipeline.run.                                *)
(***************************************************************************)
EXTENDS Integers, Sequences, FiniteSets, TLC

VARIABLES
    data,       \* the DataFrame object the caller holds (`data` / `transformed_data`)
    dq,         \* DataQuality.datasets['bbc_df']
    aliased,    \* TRUE while dq and data are the same DataFrame object
    dupReport,  \* the DataFrame check_duplicates returned
    nullReport, \* the DataFrame check_null_values returned
    threshold,  \* drop_null_threshold of the last handle_null_values call
    dqpc,       \* position in the sequence of DataQuality calls
    validation, \* the last call of validate_data_types_and_ranges: arguments, report
    imputation, \* the last direct call of impute_value: column, method (NONE before)
    wh,         \* the warehouse: five dimension tables and fact_news
    wh0,        \* the warehouse before the first loader call
    whBefore,   \* the warehouse when the last loader call was entered
    last,       \* the last loader call: method, whether a statement failed, result, warnings
    prev,       \* the loader call before it
    hist,       \* what happened before the last loader call (see NoHist)
    pc,         \* position of DataPipeline.run
    conn,       \* the database connection: "none", "open", "closed"
    exitStatus, \* the status the process ended with (-1 while it runs)
    dimResult,  \* success_dim of the run ("unset" until load_to_dimension_tables returns)
    factCalled, \* load_to_fact_table was called in the run
    transformed_data, \* what transform_data returned to run (NONE before, and for None)
    fatal       \* the step whose failure ended the run ("none" otherwise)

vars == <<data, dq, aliased, dupReport, nullReport, threshold, dqpc, validation,
          imputation,
          wh, wh0, whBefore, last, prev, hist,
          pc, conn, exitStatus, dimResult, factCalled, transformed_data, fatal>>

dqVars == <<data, dq, aliased, dupReport, nullReport, threshold, dqpc, validation,
           imputation>>
whVars == <<wh, wh0, whBefore, last, prev, hist>>
pipeVars == <<pc, conn, exitStatus, dimResult, factCalled, transformed_data, fatal>>

-----------------------------------------------------------------------------
(* Cell values.  A cell is a null (None / NaN / NaT), a string, a number,  *)
(* a timestamp (seconds), a date string or a comma-separated tags string.  *)
(* The kinds carry different field names, so that two cells of different   *)
(* kinds are simply unequal.                                               *)

NULL == [null |-> TRUE]
S(x) == [str |-> x]
N(x) == [num |-> x]
T(x) == [ts |-> x]
\* a date string "<a><sep><b><sep><y>", e.g. DS(15, "-", 3, 2024) for "15-03-2024"
DS(a, sep, b, y) == [dstr |-> <<a, sep, b, y>>]
\* a tags string, as its sequence of characters
TG(chars) == [chars |-> chars]

isna(v) == v = NULL
notna(v) == v # NULL

\* row.get(c): the cell of column c, None when the frame has no such column
RowGet(df, row, c) == IF c \in df.cols THEN row[c] ELSE NULL
\* row.get(c, default)
RowGetDefault(df, row, c, default) == IF c \in df.cols THEN row[c] ELSE default

-----------------------------------------------------------------------------
(* Dates.  A date is [y, m, d]; a timestamp counts seconds from            *)
(* 2024-01-01 00:00:00, on a calendar whose months all have 31 days.       *)

FAIL == [fail |-> TRUE]
Date(y, m, d) == [y |-> y, m |-> m, d |-> d]
ValidDM(d, m) == d \in 1..31 /\ m \in 1..12

Ordinal(dt) == ((dt.y - 2024) * 12 + (dt.m - 1)) * 31 + (dt.d - 1)
DateOfOrdinal(o) == Date(2024 + (o \div 372), ((o \div 31) % 12) + 1, (o % 31) + 1)
TsOfDate(dt) == Ordinal(dt) * 86400
\* Timestamp.date()
DateOfTs(t) == DateOfOrdinal(t \div 86400)

\* pd.to_datetime(s, format='%d-%m-%Y', dayfirst=True)
ParseStrict(v) ==
    LET p == v.dstr IN
    IF p[2] = "-" /\ ValidDM(p[1], p[3]) THEN Date(p[4], p[3], p[1]) ELSE FAIL

\* pd.to_datetime(s, dayfirst=True): the permissive parser; the first number
\* is the day when that gives a date, the month otherwise
ParseDayfirst(v) ==
    LET p == v.dstr IN
    IF p[2] \notin {"-", "/"} THEN FAIL
    ELSE IF ValidDM(p[1], p[3]) THEN Date(p[4], p[3], p[1])
    ELSE IF ValidDM(p[3], p[1]) THEN Date(p[4], p[1], p[3])
    ELSE FAIL

\* DataLoader.parse_date: FAIL stands for the exception of the fallback
parse_date(v) ==
    IF "ts" \in DOMAIN v THEN DateOfTs(v.ts)
    ELSE LET s == ParseStrict(v) IN IF s # FAIL THEN s ELSE ParseDayfirst(v)

-----------------------------------------------------------------------------
(* Tags: tags_field.split(','), t.strip(), empty fragments dropped.        *)

RECURSIVE SplitFrom(_, _, _)
\* the fragments of chars[i..], cur being the fragment read so far
SplitFrom(chars, i, cur) ==
    IF i > Len(chars) THEN <<cur>>
    ELSE IF chars[i] = "," THEN <<cur>> \o SplitFrom(chars, i + 1, <<>>)
    ELSE SplitFrom(chars, i + 1, Append(cur, chars[i]))

Split(chars) == SplitFrom(chars, 1, <<>>)

RECURSIVE LStrip(_)
LStrip(s) == IF s # <<>> /\ Head(s) = " " THEN LStrip(Tail(s)) ELSE s
RECURSIVE RStrip(_)
RStrip(s) == IF s # <<>> /\ s[Len(s)] = " " THEN RStrip(SubSeq(s, 1, Len(s) - 1)) ELSE s
Strip(s) == RStrip(LStrip(s))

RECURSIVE KeepNonEmpty(_)
KeepNonEmpty(frags) ==
    IF frags = <<>> THEN <<>>
    ELSE LET t == Strip(Head(frags)) IN
         IF t # <<>> THEN <<t>> \o KeepNonEmpty(Tail(frags))
         ELSE KeepNonEmpty(Tail(frags))

\* [t.strip() for t in tags_field.split(',')]: the empty fragments kept
ParseTagsKeepEmpty(v) == [k \in DOMAIN Split(v.chars) |-> Strip(Split(v.chars)[k])]

\* [t.strip() for t in tags_field.split(',') if t.strip()]
ParseTags(v) == KeepNonEmpty(Split(v.chars))

-----------------------------------------------------------------------------
(* The warehouse.  A table is a set of rows; a serial key is one more than *)
(* the number of rows (the loader never deletes).                          *)

EmptyWh ==
    [dim_date |-> {}, dim_category |-> {}, dim_source_category |-> {},
     dim_tag |-> {}, dim_article |-> {}, fact_news |-> {}]

NextId(table) == Cardinality(table) + 1

\* The run of a loader method: the warehouse, the number of statements
\* executed, the statement that fails (0: none), whether an exception
\* has been raised, and the warnings logged.
StartExec(w, faultAt) ==
    [wh |-> w, n |-> 0, faultAt |-> faultAt, err |-> FALSE, log |-> <<>>]

\* self.logger.warning(...): what was not found, and the value looked for
Warn(st, what, value) == [st EXCEPT !.log = Append(@, [miss |-> what, value |-> value])]

\* cursor.execute: the statement is counted, and raises when it is the
\* failing one
Execute(st) ==
    IF st.err THEN st
    ELSE IF st.n + 1 = st.faultAt THEN [st EXCEPT !.n = @ + 1, !.err = TRUE]
    ELSE [st EXCEPT !.n = @ + 1]

Raise(st) == [st EXCEPT !.err = TRUE]

-----------------------------------------------------------------------------
(* load_to_dimension_tables: one insert-if-absent statement per dimension, *)
(* each committed on its own.                                              *)

\* INSERT INTO dim_date ... WHERE NOT EXISTS (SELECT 1 FROM dim_date WHERE date = %s)
InsertDimDate(w, d) ==
    IF \E r \in w.dim_date : r.date = d THEN w
    ELSE [w EXCEPT !.dim_date = @ \cup
            {[date_id |-> NextId(@), date |-> d, day |-> d.d, month |-> d.m, year |-> d.y]}]

\* the insert with a guard that lost its WHERE clause:
\* ... WHERE NOT EXISTS (SELECT 1 FROM dim_category)
InsertDimCategoryIfEmpty(w, name) ==
    IF w.dim_category # {} THEN w
    ELSE [w EXCEPT !.dim_category = @ \cup {[category_id |-> NextId(@), name |-> name]}]

\* the insert without its NOT EXISTS guard
InsertDimCategoryNoGuard(w, name) ==
    [w EXCEPT !.dim_category = @ \cup {[category_id |-> NextId(@), name |-> name]}]

\* INSERT INTO dim_category (name) ... WHERE NOT EXISTS (... WHERE name = %s)
InsertDimCategory(w, name) ==
    IF \E r \in w.dim_category : r.name = name THEN w
    ELSE [w EXCEPT !.dim_category = @ \cup {[category_id |-> NextId(@), name |-> name]}]

\* INSERT INTO dim_source_category (name) ... WHERE NOT EXISTS (... WHERE name = %s)
InsertDimSourceCategory(w, name) ==
    IF \E r \in w.dim_source_category : r.name = name THEN w
    ELSE [w EXCEPT !.dim_source_category = @ \cup
            {[source_category_id |-> NextId(@), name |-> name]}]

\* the tag insert without its NOT EXISTS guard
InsertDimTagNoGuard(w, name) ==
    [w EXCEPT !.dim_tag = @ \cup {[tag_id |-> NextId(@), name |-> name]}]

\* INSERT INTO dim_tag (name) ... WHERE NOT EXISTS (... WHERE name = %s)
InsertDimTag(w, name) ==
    IF \E r \in w.dim_tag : r.name = name THEN w
    ELSE [w EXCEPT !.dim_tag = @ \cup {[tag_id |-> NextId(@), name |-> name]}]

\* the insert guarded on the whole row instead of the url
InsertDimArticleGuardRow(w, title, desc, url) ==
    IF \E r \in w.dim_article : r.url = url /\ r.title = title /\ r.description = desc THEN w
    ELSE [w EXCEPT !.dim_article = @ \cup
            {[news_id |-> NextId(@), title |-> title, description |-> desc, url |-> url]}]

\* the article insert as an upsert: an article found by its url takes the
\* new title and description
InsertDimArticleUpsert(w, title, desc, url) ==
    IF \E r \in w.dim_article : r.url = url
    THEN [w EXCEPT !.dim_article =
            {IF r.url = url THEN [r EXCEPT !.title = title, !.description = desc] ELSE r :
                r \in @}]
    ELSE [w EXCEPT !.dim_article = @ \cup
            {[news_id |-> NextId(@), title |-> title, description |-> desc, url |-> url]}]

\* INSERT INTO dim_article (title, description, url) ... WHERE NOT EXISTS (... WHERE url = %s)
InsertDimArticle(w, title, desc, url) ==
    IF \E r \in w.dim_article : r.url = url THEN w
    ELSE [w EXCEPT !.dim_article = @ \cup
            {[news_id |-> NextId(@), title |-> title, description |-> desc, url |-> url]}]

\* with conn.cursor() as cursor: cursor.execute(...); conn.commit()
\* w is the warehouse the statement leaves when it does not raise
Statement(st, w) ==
    LET t == Execute(st) IN
    IF t.err THEN t ELSE [t EXCEPT !.wh = w]

RECURSIVE DimTags(_, _)
\* for tag in tags: insert into dim_tag
DimTags(st, tags) ==
    IF tags = <<>> \/ st.err THEN st
    ELSE DimTags(Statement(st, InsertDimTag(st.wh, Head(tags))), Tail(tags))

\* the loop body without the pd.notna test of source_category
DimRowNoSourceGuard(st, df, row) ==
    IF st.err \/ isna(RowGet(df, row, "updated")) THEN st
    ELSE
    LET date_obj == parse_date(row["updated"])
        category == RowGet(df, row, "category")
        source_category == RowGet(df, row, "source_category")
        tags_field == RowGet(df, row, "tags")
        title == RowGet(df, row, "title")
        desc == RowGet(df, row, "description")
        url == RowGet(df, row, "url")
    IN
    IF date_obj = FAIL THEN Raise(st)
    ELSE
    LET s1 == Statement(st, InsertDimDate(st.wh, date_obj))
        s2 == IF notna(category)
              THEN Statement(s1, InsertDimCategory(s1.wh, category))
              ELSE s1
        s3 == Statement(s2, InsertDimSourceCategory(s2.wh, source_category))
        s4 == IF notna(tags_field) THEN DimTags(s3, ParseTags(tags_field)) ELSE s3
    IN
    IF notna(title) /\ notna(desc) /\ notna(url)
    THEN Statement(s4, InsertDimArticle(s4.wh, title, desc, url))
    ELSE s4

\* the loop body leaving a row as soon as one of its optional fields is null
DimRowStopAtMissing(st, df, row) ==
    IF st.err \/ isna(RowGet(df, row, "updated")) THEN st
    ELSE
    LET date_obj == parse_date(row["updated"])
        category == RowGet(df, row, "category")
        source_category == RowGet(df, row, "source_category")
        tags_field == RowGet(df, row, "tags")
        title == RowGet(df, row, "title")
        desc == RowGet(df, row, "description")
        url == RowGet(df, row, "url")
    IN
    IF date_obj = FAIL THEN Raise(st)
    ELSE
    LET s1 == Statement(st, InsertDimDate(st.wh, date_obj))
        s2 == Statement(s1, InsertDimCategory(s1.wh, category))
        s3 == Statement(s2, InsertDimSourceCategory(s2.wh, source_category))
        s4 == DimTags(s3, ParseTags(tags_field))
    IN
    IF isna(category) THEN s1
    ELSE IF isna(source_category) THEN s2
    ELSE IF isna(tags_field) THEN s3
    ELSE IF notna(title) /\ notna(desc) /\ notna(url)
    THEN Statement(s4, InsertDimArticle(s4.wh, title, desc, url))
    ELSE s4

\* the loop body with pd.notna(url) as the only test before the article insert
DimRowArticleByUrl(st, df, row) ==
    IF st.err \/ isna(RowGet(df, row, "updated")) THEN st
    ELSE
    LET date_obj == parse_date(row["updated"])
        category == RowGet(df, row, "category")
        source_category == RowGet(df, row, "source_category")
        tags_field == RowGet(df, row, "tags")
        title == RowGet(df, row, "title")
        desc == RowGet(df, row, "description")
        url == RowGet(df, row, "url")
    IN
    IF date_obj = FAIL THEN Raise(st)
    ELSE
    LET s1 == Statement(st, InsertDimDate(st.wh, date_obj))
        s2 == IF notna(category)
              THEN Statement(s1, InsertDimCategory(s1.wh, category))
              ELSE s1
        s3 == IF notna(source_category)
              THEN Statement(s2, InsertDimSourceCategory(s2.wh, source_category))
              ELSE s2
        s4 == IF notna(tags_field) THEN DimTags(s3, ParseTags(tags_field)) ELSE s3
    IN
    IF notna(url)
    THEN Statement(s4, InsertDimArticle(s4.wh, title, desc, url))
    ELSE s4

\* the body of the loop over data.iterrows() of load_to_dimension_tables
DimRow(st, df, row) ==
    IF st.err \/ isna(RowGet(df, row, "updated")) THEN st
    ELSE
    LET date_obj == parse_date(row["updated"])
        category == RowGet(df, row, "category")
        source_category == RowGet(df, row, "source_category")
        tags_field == RowGet(df, row, "tags")
        title == RowGet(df, row, "title")
        desc == RowGet(df, row, "description")
        url == RowGet(df, row, "url")
    IN
    IF date_obj = FAIL THEN Raise(st)
    ELSE
    LET s1 == Statement(st, InsertDimDate(st.wh, date_obj))
        s2 == IF notna(category)
              THEN Statement(s1, InsertDimCategory(s1.wh, category))
              ELSE s1
        s3 == IF notna(source_category)
              THEN Statement(s2, InsertDimSourceCategory(s2.wh, source_category))
              ELSE s2
        s4 == IF notna(tags_field) THEN DimTags(s3, ParseTags(tags_field)) ELSE s3
    IN
    IF notna(title) /\ notna(desc) /\ notna(url)
    THEN Statement(s4, InsertDimArticle(s4.wh, title, desc, url))
    ELSE s4

RECURSIVE DimRowsKeepGoing(_, _, _)
\* the loop with the exception caught per row: the rows after a failing one
\* are still loaded
DimRowsKeepGoing(st, df, i) ==
    IF i > Len(df.rows) THEN st
    ELSE LET s == DimRow([st EXCEPT !.err = FALSE], df, df.rows[i]) IN
         DimRowsKeepGoing([s EXCEPT !.err = st.err \/ s.err], df, i + 1)

RECURSIVE DimRowsStopAtUndated(_, _, _)
\* the loop left (break) at the first row without a date
DimRowsStopAtUndated(st, df, i) ==
    IF i > Len(df.rows) \/ st.err \/ isna(RowGet(df, df.rows[i], "updated")) THEN st
    ELSE DimRowsStopAtUndated(DimRow(st, df, df.rows[i]), df, i + 1)

RECURSIVE DimRows(_, _, _)
DimRows(st, df, i) ==
    IF i > Len(df.rows) \/ st.err THEN st
    ELSE DimRows(DimRow(st, df, df.rows[i]), df, i + 1)

\* DataLoader.load_to_dimension_tables(data), the faultAt-th statement
\* raising (0: none does): the warehouse it leaves, the value it returns and
\* the number of statements it issued
load_to_dimension_tables(w, df, faultAt) ==
    LET st == DimRows(StartExec(w, faultAt), df, 1) IN
    [wh |-> st.wh, ok |-> ~st.err, n |-> st.n, log |-> st.log]

-----------------------------------------------------------------------------
(* load_to_fact_table: four key lookups per row, then one lookup and one   *)
(* conflict-safe insert per tag.                                           *)

B(b) == [bool |-> b]

\* SELECT <key> FROM <dim> WHERE <natural key> = %s; fetchone(): the set of
\* keys found (a NULL parameter equals nothing)
LookupCategory(w, name) ==
    IF isna(name) THEN {} ELSE {r.category_id : r \in {x \in w.dim_category : x.name = name}}
LookupSourceCategory(w, name) ==
    IF isna(name) THEN {}
    ELSE {r.source_category_id : r \in {x \in w.dim_source_category : x.name = name}}
LookupDate(w, d) == {r.date_id : r \in {x \in w.dim_date : x.date = d}}
LookupArticle(w, url) ==
    IF isna(url) THEN {} ELSE {r.news_id : r \in {x \in w.dim_article : x.url = url}}
LookupTag(w, name) == {r.tag_id : r \in {x \in w.dim_tag : x.name = name}}

FetchOne(res) == CHOOSE x \in res : TRUE

FactKey(f) == <<f.news_id, f.date_id, f.category_id, f.source_category_id, f.tag_id>>

\* the insert without ON CONFLICT ... DO NOTHING
InsertFactNoConflict(w, f) == [w EXCEPT !.fact_news = @ \cup {f}]

\* INSERT INTO fact_news (...) VALUES (...) ON CONFLICT (5 keys) DO NOTHING
InsertFact(w, f) ==
    IF \E g \in w.fact_news : FactKey(g) = FactKey(f) THEN w
    ELSE [w EXCEPT !.fact_news = @ \cup {f}]

RECURSIVE FactTags(_, _, _, _, _)
\* for tag in tags: look the tag up, skip it on a miss, insert the fact row
FactTags(st, tags, keys, is_live, in_pagination) ==
    IF tags = <<>> \/ st.err THEN st
    ELSE
    LET s1 == Execute(st)
        res == LookupTag(s1.wh, Head(tags))
    IN
    IF s1.err THEN s1
    ELSE IF res = {}
    THEN FactTags(Warn(s1, "tag", Head(tags)), Tail(tags), keys, is_live, in_pagination)
    ELSE
    LET f == [news_id |-> keys.news_id, date_id |-> keys.date_id,
              category_id |-> keys.category_id,
              source_category_id |-> keys.source_category_id,
              tag_id |-> FetchOne(res),
              is_live |-> is_live, in_pagination |-> in_pagination]
    IN FactTags(Statement(s1, InsertFact(s1.wh, f)), Tail(tags),
                keys, is_live, in_pagination)

\* a lookup that ended the row: the statement raised, or it found nothing,
\* which is logged before the `continue`
Skipped(st, what, value) ==
    [st |-> IF st.err THEN st ELSE Warn(st, what, value), skip |-> TRUE]

\* the lookups with the `continue` on a missing source category left out
FactLookupsNoSkip(st, df, row, date_obj) ==
    LET s1 == Execute(st)
        cat == LookupCategory(s1.wh, RowGet(df, row, "category"))
        s2 == Execute(s1)
        src == LookupSourceCategory(s2.wh, RowGet(df, row, "source_category"))
        s3 == Execute(s2)
        dat == LookupDate(s3.wh, date_obj)
        s4 == Execute(s3)
        art == LookupArticle(s4.wh, RowGet(df, row, "url"))
    IN
    IF s1.err \/ cat = {} THEN Skipped(s1, "category", RowGet(df, row, "category"))
    ELSE IF s2.err THEN Skipped(s2, "source_category", RowGet(df, row, "source_category"))
    ELSE IF s3.err \/ dat = {} THEN Skipped(s3, "date", date_obj)
    ELSE IF s4.err \/ art = {} THEN Skipped(s4, "article", RowGet(df, row, "url"))
    ELSE [st |-> s4, skip |-> FALSE,
          keys |-> [news_id |-> FetchOne(art), date_id |-> FetchOne(dat),
                    category_id |-> FetchOne(cat),
                    source_category_id |-> IF src = {} THEN 0 ELSE FetchOne(src)]]

\* the four lookups of a row: the state after them and the keys found, or
\* skip = TRUE when one of them missed (`continue`)
FactLookups(st, df, row, date_obj) ==
    LET s1 == Execute(st)
        cat == LookupCategory(s1.wh, RowGet(df, row, "category"))
        s2 == Execute(s1)
        src == LookupSourceCategory(s2.wh, RowGet(df, row, "source_category"))
        s3 == Execute(s2)
        dat == LookupDate(s3.wh, date_obj)
        s4 == Execute(s3)
        art == LookupArticle(s4.wh, RowGet(df, row, "url"))
    IN
    IF s1.err \/ cat = {} THEN Skipped(s1, "category", RowGet(df, row, "category"))
    ELSE IF s2.err \/ src = {}
         THEN Skipped(s2, "source_category", RowGet(df, row, "source_category"))
    ELSE IF s3.err \/ dat = {} THEN Skipped(s3, "date", date_obj)
    ELSE IF s4.err \/ art = {} THEN Skipped(s4, "article", RowGet(df, row, "url"))
    ELSE [st |-> s4, skip |-> FALSE,
          keys |-> [news_id |-> FetchOne(art), date_id |-> FetchOne(dat),
                    category_id |-> FetchOne(cat),
                    source_category_id |-> FetchOne(src)]]

\* the body of the loop over data.iterrows() of load_to_fact_table
FactRow(st, df, row) ==
    IF st.err THEN st
    ELSE IF isna(RowGet(df, row, "updated")) THEN Warn(st, "updated", NULL)
    ELSE
    LET date_obj == parse_date(row["updated"]) IN
    IF date_obj = FAIL THEN Raise(st)
    ELSE
    LET lk == FactLookups(st, df, row, date_obj)
        tags_field == RowGet(df, row, "tags")
    IN
    IF lk.skip \/ isna(tags_field) THEN lk.st
    ELSE FactTags(lk.st, ParseTags(tags_field), lk.keys,
                  RowGet(df, row, "live") = S("Yes"),
                  RowGetDefault(df, row, "in_pagination", B(FALSE)))

RECURSIVE FactRows(_, _, _)
FactRows(st, df, i) ==
    IF i > Len(df.rows) \/ st.err THEN st
    ELSE FactRows(FactRow(st, df, df.rows[i]), df, i + 1)

\* DataLoader.load_to_fact_table(data), the faultAt-th statement raising
load_to_fact_table(w, df, faultAt) ==
    LET st == FactRows(StartExec(w, faultAt), df, 1) IN
    [wh |-> st.wh, ok |-> ~st.err, n |-> st.n, log |-> st.log]

-----------------------------------------------------------------------------
(* Inputs of the loader: row-sets of at most MaxRows rows.                 *)

MaxRows == 2

LoadCols == {"updated", "category", "source_category", "tags", "title",
             "description", "url", "live"}

LRow(updated, category, source_category, tags, title, desc, url, live) ==
    [updated |-> updated, category |-> category, source_category |-> source_category,
     tags |-> tags, title |-> title, description |-> desc, url |-> url, live |-> live]

\* "15-03-2024": Tech / bbc, tags "a, a,p", article u1, live
RowFull ==
    LRow(DS(15, "-", 3, 2024), S("Tech"), S("bbc"),
         TG(<<"a", ",", " ", "a", ",", "p">>), S("t1"), S("d1"), S("u1"), S("Yes"))
\* "03/15/2024" (the same day, read by the fallback parser): the same
\* article url with another title, not live
RowSameUrl ==
    LRow(DS(3, "/", 15, 2024), S("Tech"), S("bbc"),
         TG(<<"a">>), S("t2"), S("d2"), S("u1"), S("No"))
\* no date
RowNoDate ==
    LRow(NULL, S("Biz"), S("cnn"), TG(<<"q">>), S("t3"), S("d3"), S("u3"), S("Yes"))
\* a date no parser reads
RowBadDate ==
    LRow(DS(0, "?", 0, 0), S("Biz"), S("cnn"), TG(<<"q">>), S("t3"), S("d3"), S("u3"), S("Yes"))
\* no source category
RowNoSource ==
    LRow(DS(16, "-", 3, 2024), S("Tech"), NULL, TG(<<"p">>), S("t4"), S("d4"), S("u2"), S("Yes"))
\* no category
RowNoCategory ==
    LRow(DS(15, "-", 3, 2024), NULL, S("bbc"), TG(<<"p">>), S("t4"), S("d4"), S("u2"), S("No"))
\* no title
RowNoTitle ==
    LRow(DS(16, "-", 3, 2024), S("Biz"), S("bbc"), TG(<<"p">>), NULL, S("d4"), S("u2"), S("No"))
\* no url
RowNoUrl ==
    LRow(DS(16, "-", 3, 2024), S("Biz"), S("bbc"), TG(<<"p">>), S("t4"), S("d4"), NULL, S("No"))
\* no tags
RowNoTags ==
    LRow(DS(15, "-", 3, 2024), S("Tech"), S("bbc"), NULL, S("t5"), S("d5"), S("u2"), S("Yes"))
\* tags " ,": only empty fragments
RowEmptyTags ==
    LRow(DS(15, "-", 3, 2024), S("Tech"), S("bbc"), TG(<<" ", ",">>), S("t5"), S("d5"), S("u2"), S("Yes"))

LoadRows == {RowFull, RowSameUrl, RowNoDate, RowBadDate, RowNoSource,
             RowNoCategory, RowNoTitle, RowNoUrl, RowNoTags, RowEmptyTags}

SeqsUpTo(set, n) == UNION {[1..k -> set] : k \in 0..n}

\* the dtype pandas gives a column read from the staging file: a column of
\* numbers is int64, float64 when it holds nulls; every other column is object
InferDType(c, rows) ==
    IF c # "year" THEN "object"
    ELSE IF \E i \in DOMAIN rows : isna(rows[i][c]) THEN "float64" ELSE "int64"

\* a DataFrame: its columns, their dtypes and its rows
Frame(cols, rows) ==
    [cols |-> cols, dtype |-> [c \in cols |-> InferDType(c, rows)], rows |-> rows]
EmptyFrame == Frame({}, <<>>)

LoadFrames == {Frame(LoadCols, rows) : rows \in SeqsUpTo(LoadRows, MaxRows)}

\* the warehouse an earlier batch left: the article u1 under an older title,
\* not live, tagged "a"
SeedFrame ==
    Frame(LoadCols,
          <<LRow(DS(15, "-", 3, 2024), S("Tech"), S("bbc"), TG(<<"a">>),
                 S("t0"), S("d0"), S("u1"), S("No"))>>)
SeededWh ==
    load_to_fact_table(load_to_dimension_tables(EmptyWh, SeedFrame, 0).wh, SeedFrame, 0).wh

-----------------------------------------------------------------------------
(* SpecLoad: calls of the loader on one row-set.  load_to_fact_table is    *)
(* called only once load_to_dimension_tables has returned True on the      *)
(* row-set, as DataPipeline.run does.                                      *)

NoCall == [op |-> "none", fault |-> FALSE, ok |-> TRUE, log |-> <<>>]
\* dimOk: load_to_dimension_tables has returned True;
\* faulted: a database statement of an earlier call failed;
\* completed: an uninterrupted dimension load and fact load, one after the
\* other, had both finished before the last call was entered
NoHist == [dimOk |-> FALSE, faulted |-> FALSE, completed |-> FALSE]

\* the last two calls were a dimension load and a fact load, neither cut short
RunJustCompleted ==
    /\ prev.op = "dim" /\ ~prev.fault /\ prev.ok
    /\ last.op = "fact" /\ ~last.fault /\ last.ok

\* no DataQuality object yet
NONE == [none |-> TRUE]
NoDuplicates == [hasDataset |-> TRUE, rows |-> <<>>]
DQIdle ==
    /\ dq = NONE /\ aliased = FALSE /\ dupReport = NoDuplicates /\ nullReport = <<>>
    /\ threshold = 0 /\ dqpc = "idle" /\ validation = NONE /\ imputation = NONE
\* no pipeline run
PipeIdle ==
    /\ pc = "idle" /\ conn = "none" /\ exitStatus = -1
    /\ dimResult = "unset" /\ factCalled = FALSE
    /\ transformed_data = NONE /\ fatal = "none"
WhIdle(w) ==
    /\ wh = w /\ wh0 = w /\ whBefore = w
    /\ last = NoCall /\ prev = NoCall /\ hist = NoHist

InitLoad ==
    /\ data \in LoadFrames
    /\ \E w \in {EmptyWh, SeededWh} : WhIdle(w)
    /\ DQIdle
    /\ PipeIdle

Called(op, r, f) ==
    /\ wh' = r.wh
    /\ whBefore' = wh
    /\ last' = [op |-> op, fault |-> f # 0, ok |-> r.ok, log |-> r.log]
    /\ prev' = last
    /\ hist' = [dimOk |-> hist.dimOk \/ (op = "dim" /\ r.ok),
                faulted |-> hist.faulted \/ last.fault,
                completed |-> hist.completed \/ RunJustCompleted]
    /\ wh0' = wh0

\* loader.load_to_dimension_tables(data); f is the statement that fails
CallLoadDim ==
    \E f \in 0..load_to_dimension_tables(wh, data, 0).n :
        /\ Called("dim", load_to_dimension_tables(wh, data, f), f)
        /\ UNCHANGED <<dqVars, pipeVars>>

\* loader.load_to_fact_table(data)
CallLoadFact ==
    /\ hist.dimOk
    /\ \E f \in 0..load_to_fact_table(wh, data, 0).n :
        /\ Called("fact", load_to_fact_table(wh, data, f), f)
        /\ UNCHANGED <<dqVars, pipeVars>>

NextLoad == CallLoadDim \/ CallLoadFact

SpecLoad == InitLoad /\ [][NextLoad]_vars

-----------------------------------------------------------------------------
(* DataQuality: the checks and repairs of one dataset.                     *)

DatasetName == "bbc_df"

\* the columns of a frame, in the order the frame keeps them
ColumnOrder == <<"title", "description", "url", "updated", "category",
                 "source_category", "tags", "live", "year">>
ColSeq(df) == SelectSeq(ColumnOrder, LAMBDA c : c \in df.cols)

ColumnValues(df, c) == [i \in DOMAIN df.rows |-> df.rows[i][c]]
SetColumn(df, c, vals, dtype) ==
    [df EXCEPT !.rows = [i \in DOMAIN df.rows |-> [df.rows[i] EXCEPT ![c] = vals[i]]],
               !.dtype = [@ EXCEPT ![c] = dtype]]
\* df.drop(c, axis=1, inplace=True)
DropColumn(df, c) ==
    [cols |-> df.cols \ {c},
     dtype |-> [x \in df.cols \ {c} |-> df.dtype[x]],
     rows |-> [i \in DOMAIN df.rows |-> [x \in df.cols \ {c} |-> df.rows[i][x]]]]

is_numeric_dtype(t) == t \in {"int64", "float64"}
is_datetime64_any_dtype(t) == t = "datetime64"

\* df.duplicated(keep='first'): the rows equal in every column to an earlier row
Duplicated(df) == {i \in DOMAIN df.rows : \E j \in 1..(i - 1) : df.rows[j] = df.rows[i]}

\* df.groupby(list(df.columns)).transform('size') at row i: the number of
\* rows equal to it; groupby leaves out the rows that hold a null
GroupSize(df, i) ==
    IF \E c \in df.cols : isna(df.rows[i][c]) THEN NULL
    ELSE N(Cardinality({j \in DOMAIN df.rows : df.rows[j] = df.rows[i]}))

\* DataQuality.check_duplicates for one dataset: one report row for every
\* duplicated row, in row order
check_duplicates(name, df) ==
    LET dup == Duplicated(df)
        idx == SelectSeq([i \in DOMAIN df.rows |-> i], LAMBDA i : i \in dup)
    IN [hasDataset |-> TRUE,
        rows |-> [k \in DOMAIN idx |->
                    [Dataset |-> name, row |-> df.rows[idx[k]],
                     count |-> GroupSize(df, idx[k])]]]

RowsAt(df, idx) == [df EXCEPT !.rows = [k \in DOMAIN idx |-> df.rows[idx[k]]]]

\* df.drop_duplicates(subset='url', keep='first'): a new frame with the rows
\* whose url no earlier row has
DropDuplicatesUrl(df) ==
    LET keep == {i \in DOMAIN df.rows :
                    ~\E j \in 1..(i - 1) : df.rows[j]["url"] = df.rows[i]["url"]}
    IN RowsAt(df, SelectSeq([i \in DOMAIN df.rows |-> i], LAMBDA i : i \in keep))

\* DataQuality.handle_duplicates for the one dataset: the frame the dataset
\* entry names afterwards, whether that is a new object, and whether the
\* call raised (drop_duplicates on a frame without a url column)
handle_duplicates(name, df, report) ==
    IF ~report.hasDataset THEN [df |-> df, fresh |-> FALSE, err |-> FALSE]
    ELSE IF \E k \in DOMAIN report.rows : report.rows[k].Dataset = name
    THEN IF "url" \notin df.cols THEN [df |-> df, fresh |-> FALSE, err |-> TRUE]
         ELSE [df |-> DropDuplicatesUrl(df), fresh |-> TRUE, err |-> FALSE]
    ELSE [df |-> df, fresh |-> FALSE, err |-> FALSE]

\* the column names that hold 'date' or 'timestamp' when lowercased
\* ('updated' holds 'date')
DateNamedColumns == {"updated"}

\* the format pd.to_datetime guesses from the first non-null string of a
\* column, month first where the string allows it
MonthFirst(p) == p[2] \in {"-", "/"} /\ ValidDM(p[3], p[1])
DayFirst(p) == p[2] \in {"-", "/"} /\ ValidDM(p[1], p[3])
GuessFormat(p) ==
    IF MonthFirst(p) THEN [order |-> "mdy", sep |-> p[2]]
    ELSE IF DayFirst(p) THEN [order |-> "dmy", sep |-> p[2]]
    ELSE [order |-> "none", sep |-> p[2]]

\* one element under the guessed format, errors='coerce'; without a guessed
\* format each element is parsed on its own, month first
ToDatetimeElement(v, fmt) ==
    IF "ts" \in DOMAIN v THEN v
    ELSE IF "dstr" \notin DOMAIN v THEN NULL
    ELSE LET p == v.dstr IN
         CASE fmt.order = "mdy" ->
                IF p[2] = fmt.sep /\ ValidDM(p[3], p[1])
                THEN T(TsOfDate(Date(p[4], p[1], p[3]))) ELSE NULL
           [] fmt.order = "dmy" ->
                IF p[2] = fmt.sep /\ ValidDM(p[1], p[3])
                THEN T(TsOfDate(Date(p[4], p[3], p[1]))) ELSE NULL
           [] OTHER ->
                IF MonthFirst(p) THEN T(TsOfDate(Date(p[4], p[1], p[3])))
                ELSE IF DayFirst(p) THEN T(TsOfDate(Date(p[4], p[3], p[1])))
                ELSE NULL

\* pd.to_datetime(column, errors='coerce')
to_datetime(vals) ==
    LET strs == {i \in DOMAIN vals : "dstr" \in DOMAIN vals[i]}
        fmt == IF strs = {} THEN [order |-> "none", sep |-> "-"]
               ELSE GuessFormat(vals[CHOOSE i \in strs : \A j \in strs : i <= j].dstr)
    IN [i \in DOMAIN vals |-> ToDatetimeElement(vals[i], fmt)]

RECURSIVE ConvertColumns(_, _, _)
ConvertColumns(df, cols, k) ==
    IF k > Len(cols) THEN df
    ELSE ConvertColumns(
            IF cols[k] \in DateNamedColumns
            THEN SetColumn(df, cols[k], to_datetime(ColumnValues(df, cols[k])), "datetime64")
            ELSE df,
            cols, k + 1)

\* DataQuality._convert_to_datetime: the frame after the in-place conversion
convert_to_datetime(df) == ConvertColumns(df, ColSeq(df), 1)

NullCount(df, c) == Cardinality({i \in DOMAIN df.rows : isna(df.rows[i][c])})

\* check_null_values without the filter null_values > 0
check_null_values_unfiltered(name, df) ==
    LET cols == ColSeq(df)
    IN [k \in DOMAIN cols |->
          [Dataset |-> name, Kolom |-> cols[k], Tipe |-> df.dtype[cols[k]],
           nulls |-> NullCount(df, cols[k]),
           pct |-> [num |-> NullCount(df, cols[k]) * 100, den |-> Len(df.rows)],
           isDate |-> is_datetime64_any_dtype(df.dtype[cols[k]])]]

\* DataQuality.check_null_values for the one dataset, on the converted frame:
\* one report row for every column that holds a null, in column order; the
\* percentage is kept as the fraction count * 100 / rows
check_null_values(name, df) ==
    LET cols == SelectSeq(ColSeq(df), LAMBDA c : NullCount(df, c) > 0)
    IN [k \in DOMAIN cols |->
          [Dataset |-> name, Kolom |-> cols[k], Tipe |-> df.dtype[cols[k]],
           nulls |-> NullCount(df, cols[k]),
           pct |-> [num |-> NullCount(df, cols[k]) * 100, den |-> Len(df.rows)],
           isDate |-> is_datetime64_any_dtype(df.dtype[cols[k]])]]

\* null_percentage > drop_null_threshold
ExceedsThreshold(pct, thr) == pct.num > thr * pct.den

\* numbers that are not whole are kept as a reduced fraction
RECURSIVE GCD(_, _)
GCD(a, b) == IF b = 0 THEN a ELSE GCD(b, a % b)
Rat(p, q) == IF p % q = 0 THEN N(p \div q)
             ELSE [frac |-> <<p \div GCD(p, q), q \div GCD(p, q)>>]

\* the non-null values of a column, in row order
DropNa(vals) == SelectSeq(vals, LAMBDA v : notna(v))

RECURSIVE SumSeq(_, _)
SumSeq(xs, k) == IF k > Len(xs) THEN 0 ELSE xs[k] + SumSeq(xs, k + 1)
Nums(vals) == [k \in DOMAIN DropNa(vals) |-> DropNa(vals)[k].num]

\* the k-th smallest of a sequence of numbers
Sorted(xs) ==
    CHOOSE ys \in [DOMAIN xs -> {xs[i] : i \in DOMAIN xs}] :
        /\ \A i, j \in DOMAIN xs : i < j => ys[i] <= ys[j]
        /\ \A v \in {xs[i] : i \in DOMAIN xs} :
              Cardinality({i \in DOMAIN xs : xs[i] = v}) =
              Cardinality({i \in DOMAIN xs : ys[i] = v})

Mean(vals) == Rat(SumSeq(Nums(vals), 1), Len(Nums(vals)))
Median(vals) ==
    LET ys == Sorted(Nums(vals))
        n == Len(ys)
    IN IF n % 2 = 1 THEN N(ys[(n + 1) \div 2])
       ELSE Rat(ys[n \div 2] + ys[n \div 2 + 1], 2)

\* Series.skew() != 0: with fewer than three values the skewness is NaN,
\* which differs from 0; with no spread it is 0; otherwise it is 0 exactly
\* when the third central moment is
SkewNonZero(vals) ==
    LET xs == Nums(vals)
        n == Len(xs)
        sum == SumSeq(xs, 1)
        m2 == SumSeq([k \in DOMAIN xs |-> (n * xs[k] - sum) * (n * xs[k] - sum)], 1)
        m3 == SumSeq([k \in DOMAIN xs |->
                        (n * xs[k] - sum) * (n * xs[k] - sum) * (n * xs[k] - sum)], 1)
    IN IF n < 3 THEN TRUE
       ELSE IF m2 = 0 THEN FALSE
       ELSE m3 # 0

\* the object values of the staging data in their sort order
SortedObjects ==
    <<TG(<<" ", ",">>), S("Biz"), S("No"), S("Tech"), S("Yes"), TG(<<"a">>),
      TG(<<"a", ",", " ", "a", ",", "p">>), S("bbc"), S("cnn"),
      S("d0"), S("d1"), S("d2"), TG(<<"p">>), TG(<<"q">>),
      S("t0"), S("t1"), S("t2"), S("u1"), S("u2"), S("u3")>>
Rank(v) == IF \E k \in DOMAIN SortedObjects : SortedObjects[k] = v
           THEN CHOOSE k \in DOMAIN SortedObjects : SortedObjects[k] = v
           ELSE 0
Occurrences(vals, v) == Cardinality({i \in DOMAIN vals : vals[i] = v})

\* Series.mode(): the most frequent non-null values, sorted
Modes(vals) ==
    LET present == {vals[i] : i \in {j \in DOMAIN vals : notna(vals[j])}}
    IN {v \in present : \A w \in present : Occurrences(vals, w) <= Occurrences(vals, v)}
FirstMode(vals) ==
    CHOOSE v \in Modes(vals) : \A w \in Modes(vals) : Rank(v) <= Rank(w)

FillNa(vals, fill) == [i \in DOMAIN vals |-> IF isna(vals[i]) THEN fill ELSE vals[i]]

\* Series.interpolate() on a temporal column: a null between two values lies
\* on the line between them, a null after the last value takes the last
\* value, a null before the first value stays; then .dt.floor('s')
Interpolate(vals) ==
    LET valid == {i \in DOMAIN vals : notna(vals[i])}
        Before(i) == {j \in valid : j < i}
        After(i) == {j \in valid : j > i}
        Max(ix) == CHOOSE j \in ix : \A k \in ix : k <= j
        Min(ix) == CHOOSE j \in ix : \A k \in ix : j <= k
        At(i) ==
            IF i \in valid THEN vals[i]
            ELSE IF Before(i) = {} THEN NULL
            ELSE IF After(i) = {} THEN vals[Max(Before(i))]
            ELSE LET ia == Max(Before(i))
                     ib == Min(After(i))
                 IN T(vals[ia].ts
                      + ((vals[ib].ts - vals[ia].ts) * (i - ia)) \div (ib - ia))
    IN [i \in DOMAIN vals |-> At(i)]

\* impute_value with the mode as the method of every name it does not know
impute_value_lenient(df, c, method) ==
    LET vals == ColumnValues(df, c) IN
    CASE method = "mean" ->
           [df |-> SetColumn(df, c, FillNa(vals, Mean(vals)), "float64"), err |-> FALSE]
      [] method = "median" ->
           [df |-> SetColumn(df, c, FillNa(vals, Median(vals)), "float64"), err |-> FALSE]
      [] method = "interpolate" ->
           [df |-> SetColumn(df, c, Interpolate(vals), "datetime64"), err |-> FALSE]
      [] OTHER ->
           IF Modes(vals) = {} THEN [df |-> df, err |-> TRUE]
           ELSE [df |-> SetColumn(df, c, FillNa(vals, FirstMode(vals)), df.dtype[c]),
                 err |-> FALSE]

\* DataQuality.impute_value: the frame after the in-place imputation, and
\* whether the call raised (the mode of a column of nulls has no first
\* element; an unknown method is a ValueError)
impute_value(df, c, method) ==
    LET vals == ColumnValues(df, c) IN
    CASE method = "mean" ->
           [df |-> SetColumn(df, c, FillNa(vals, Mean(vals)), "float64"), err |-> FALSE]
      [] method = "median" ->
           [df |-> SetColumn(df, c, FillNa(vals, Median(vals)), "float64"), err |-> FALSE]
      [] method = "mode" ->
           IF Modes(vals) = {} THEN [df |-> df, err |-> TRUE]
           ELSE [df |-> SetColumn(df, c, FillNa(vals, FirstMode(vals)), df.dtype[c]),
                 err |-> FALSE]
      [] method = "interpolate" ->
           [df |-> SetColumn(df, c, Interpolate(vals), "datetime64"), err |-> FALSE]
      [] OTHER -> [df |-> df, err |-> TRUE]

\* the method with the two numeric cases exchanged
ImputeMethodSwapped(df, c) ==
    IF is_numeric_dtype(df.dtype[c])
    THEN IF SkewNonZero(ColumnValues(df, c)) THEN "mean" ELSE "median"
    ELSE IF is_datetime64_any_dtype(df.dtype[c]) THEN "interpolate"
    ELSE "mode"

\* the method handle_null_values picks for a column
ImputeMethod(df, c) ==
    IF is_numeric_dtype(df.dtype[c])
    THEN IF SkewNonZero(ColumnValues(df, c)) THEN "median" ELSE "mean"
    ELSE IF is_datetime64_any_dtype(df.dtype[c]) THEN "interpolate"
    ELSE "mode"

\* one report row of handle_null_values
HandleNullRow(st, r, thr) ==
    IF st.err THEN st
    ELSE IF ExceedsThreshold(r.pct, thr)
    THEN IF r.Kolom \in st.df.cols
         THEN [st EXCEPT !.df = DropColumn(st.df, r.Kolom)]
         ELSE st
    ELSE IF r.Kolom \in st.df.cols
    THEN impute_value(st.df, r.Kolom, ImputeMethod(st.df, r.Kolom))
    ELSE st

RECURSIVE HandleNullRows(_, _, _, _)
HandleNullRows(st, report, thr, k) ==
    IF k > Len(report) THEN st
    ELSE HandleNullRows(HandleNullRow(st, report[k], thr), report, thr, k + 1)

\* DataQuality.handle_null_values for the one dataset: the frame after the
\* in-place repairs, and whether the call raised
handle_null_values(df, report, thr) ==
    HandleNullRows([df |-> df, err |-> FALSE], report, thr, 1)

\* v <= w and v >= w for a number or fraction v and a whole number w; a
\* comparison with a null is False
NumLeq(v, w) ==
    IF "num" \in DOMAIN v THEN v.num <= w
    ELSE IF "frac" \in DOMAIN v THEN v.frac[1] <= w * v.frac[2]
    ELSE FALSE
NumGeq(v, w) ==
    IF "num" \in DOMAIN v THEN v.num >= w
    ELSE IF "frac" \in DOMAIN v THEN v.frac[1] >= w * v.frac[2]
    ELSE FALSE

\* ((df[column] >= min_val) & (df[column] <= max_val)).all()
AllInRange(df, c, range) ==
    \A i \in DOMAIN df.rows :
        NumGeq(df.rows[i][c], range[1]) /\ NumLeq(df.rows[i][c], range[2])

\* the 'Data Type' row with the expected type compared to itself
TypeRowNoCompare(name, df, c, expected_types) ==
    [Dataset |-> name, Column |-> c, Check |-> "Data Type",
     Expected |-> expected_types[c], Actual |-> df.dtype[c],
     Status |-> IF expected_types[c] = expected_types[c] THEN "Pass" ELSE "Fail"]

\* the 'Data Type' row of a column
TypeRow(name, df, c, expected_types) ==
    [Dataset |-> name, Column |-> c, Check |-> "Data Type",
     Expected |-> expected_types[c], Actual |-> df.dtype[c],
     Status |-> IF df.dtype[c] = expected_types[c] THEN "Pass" ELSE "Fail"]

\* the 'Value Range' row of a column
RangeRow(name, df, c, value_ranges) ==
    [Dataset |-> name, Column |-> c, Check |-> "Value Range",
     Expected |-> value_ranges[c],
     Actual |-> IF AllInRange(df, c, value_ranges[c])
                THEN "All values in range" ELSE "Out of range values exist",
     Status |-> IF AllInRange(df, c, value_ranges[c]) THEN "Pass" ELSE "Fail"]

RECURSIVE ValidateColumns(_, _, _, _, _, _)
\* the loop over df.columns
ValidateColumns(name, df, cols, k, expected_types, value_ranges) ==
    IF k > Len(cols) THEN <<>>
    ELSE (IF cols[k] \in DOMAIN expected_types
          THEN <<TypeRow(name, df, cols[k], expected_types)>> ELSE <<>>)
      \o (IF cols[k] \in DOMAIN value_ranges /\ is_numeric_dtype(df.dtype[cols[k]])
          THEN <<RangeRow(name, df, cols[k], value_ranges)>> ELSE <<>>)
      \o ValidateColumns(name, df, cols, k + 1, expected_types, value_ranges)

\* DataQuality.validate_data_types_and_ranges for the one dataset
validate_data_types_and_ranges(name, df, expected_types, value_ranges) ==
    ValidateColumns(name, df, ColSeq(df), 1, expected_types, value_ranges)

\* the arguments transform_data passes
expected_data_types == [year |-> "int64", day |-> "int64", month |-> "int64"]
value_ranges == [year |-> <<1900, 2100>>, day |-> <<1, 31>>, month |-> <<1, 12>>]

-----------------------------------------------------------------------------
(* SpecDQ: a DataQuality object over one dataset, its methods called in    *)
(* the order transform_data calls them.                                    *)

MaxDQRows == 4
DefaultThreshold == 20
CallerThreshold == 25
Thresholds == {DefaultThreshold, CallerThreshold, 2 * CallerThreshold}

DQCols == {"url", "year", "updated"}
QRow(url, year, updated) == [url |-> url, year |-> year, updated |-> updated]
\* two rows with one url and different other fields, a null in a column of
\* each type, and a date in another format than the others
DQRows ==
    { QRow(S("u1"), N(2001), DS(15, "-", 3, 2024)),
      QRow(S("u1"), N(2003), DS(16, "-", 3, 2024)),
      QRow(S("u2"), N(2006), DS(18, "-", 3, 2024)),
      QRow(NULL, N(2003), DS(16, "/", 3, 2024)),
      QRow(S("u2"), NULL, DS(18, "-", 3, 2024)),
      QRow(S("u3"), N(2005), NULL) }
DQFrames == {Frame(DQCols, rows) : rows \in SeqsUpTo(DQRows, MaxDQRows)}

WhUntouched ==
    /\ wh = EmptyWh /\ wh0 = EmptyWh /\ whBefore = EmptyWh
    /\ last = NoCall /\ prev = NoCall /\ hist = NoHist

\* DataQuality({'bbc_df': data}): the dataset entry is the caller's object
InitDQ ==
    /\ data \in DQFrames
    /\ dq = data
    /\ aliased = TRUE
    /\ dupReport = NoDuplicates
    /\ nullReport = <<>>
    /\ threshold \in Thresholds
    /\ dqpc = "created"
    /\ validation = NONE /\ imputation = NONE
    /\ WhUntouched
    /\ PipeIdle

\* duplicates_df = dq.check_duplicates()
CheckDuplicates ==
    /\ dqpc = "created"
    /\ dupReport' = check_duplicates(DatasetName, dq)
    /\ dqpc' = "duplicates_checked"
    /\ UNCHANGED <<data, dq, aliased, nullReport, threshold, validation, imputation, whVars, pipeVars>>

\* dq.handle_duplicates(duplicates_df): the dataset entry is rebound to the
\* frame drop_duplicates returns; the caller's object is not touched
HandleDuplicates ==
    /\ dqpc = "duplicates_checked"
    /\ LET r == handle_duplicates(DatasetName, dq, dupReport) IN
        /\ dq' = r.df
        /\ aliased' = (aliased /\ ~r.fresh)
        /\ dqpc' = IF r.err THEN "raised" ELSE "duplicates_handled"
    /\ UNCHANGED <<data, dupReport, nullReport, threshold, validation, imputation, whVars, pipeVars>>

\* null_values_df = dq.check_null_values(): converts the dataset in place
CheckNullValues ==
    /\ dqpc = "duplicates_handled"
    /\ dq' = convert_to_datetime(dq)
    /\ data' = IF aliased THEN dq' ELSE data
    /\ nullReport' = check_null_values(DatasetName, dq')
    /\ dqpc' = "nulls_checked"
    /\ UNCHANGED <<aliased, dupReport, threshold, validation, imputation, whVars, pipeVars>>

\* dq.handle_null_values(null_values_df, threshold): repairs in place
HandleNullValues ==
    /\ dqpc = "nulls_checked"
    /\ LET r == handle_null_values(dq, nullReport, threshold) IN
        /\ dq' = r.df
        /\ data' = IF aliased THEN r.df ELSE data
        /\ dqpc' = IF r.err THEN "raised" ELSE "nulls_handled"
    /\ UNCHANGED <<aliased, dupReport, nullReport, threshold, validation, imputation, whVars, pipeVars>>

\* the arguments of the validation calls: those of transform_data, and
\* others that name columns of every type and put the values of the data on
\* and outside the ends of the range
ValidationArguments ==
    { [expected_types |-> expected_data_types, value_ranges |-> value_ranges],
      [expected_types |-> [year |-> "float64", url |-> "object", updated |-> "datetime64"],
       value_ranges |-> [year |-> <<2003, 2006>>, url |-> <<0, 1>>]] }

\* dq.validate_data_types_and_ranges(expected_types, value_ranges), at any
\* point between the other calls: it reads the dataset and changes nothing
ValidateDataTypesAndRanges ==
    /\ dqpc # "raised"
    /\ \E a \in ValidationArguments :
        validation' = [expected_types |-> a.expected_types,
                       value_ranges |-> a.value_ranges,
                       report |-> validate_data_types_and_ranges(
                                     DatasetName, dq, a.expected_types, a.value_ranges)]
    /\ UNCHANGED <<data, dq, aliased, dupReport, nullReport, threshold, dqpc,
                   imputation, whVars, pipeVars>>

\* the methods of the direct calls: the one the type of the column calls
\* for, and a name impute_value does not know
ImputeMethods(df, c) == {ImputeMethod(df, c), "knn"}

\* dq.impute_value(df, column, method, name) called on the checked dataset,
\* for a column that holds a null and a value: it repairs in place or raises
ImputeValue ==
    /\ dqpc = "nulls_checked"
    /\ \E c \in {x \in dq.cols : 0 < NullCount(dq, x) /\ NullCount(dq, x) < Len(dq.rows)} :
       \E method \in ImputeMethods(dq, c) :
        LET r == impute_value(dq, c, method) IN
        /\ dq' = r.df
        /\ data' = IF aliased THEN r.df ELSE data
        /\ dqpc' = IF r.err THEN "raised" ELSE "imputed"
        /\ imputation' = [column |-> c, method |-> method]
    /\ UNCHANGED <<aliased, dupReport, nullReport, threshold, validation, whVars, pipeVars>>

NextDQ ==
    \/ ImputeValue
    \/ CheckDuplicates
    \/ HandleDuplicates
    \/ CheckNullValues
    \/ HandleNullValues
    \/ ValidateDataTypesAndRanges

SpecDQ == InitDQ /\ [][NextDQ]_vars

-----------------------------------------------------------------------------
(* SpecPipe: one run of DataPipeline.run.                                  *)

\* DataTransformer.transform_data(data): the DataQuality object over the
\* caller's frame, its checks and repairs with the caller's threshold, and
\* the value returned: the caller's own object, or NONE when a step raised.
transform_data(frame) ==
    LET dups == check_duplicates(DatasetName, frame)
        h == handle_duplicates(DatasetName, frame, dups)
        same == ~h.fresh
        conv == convert_to_datetime(h.df)
        nulls == check_null_values(DatasetName, conv)
        r == handle_null_values(conv, nulls, CallerThreshold)
        repaired == IF same THEN r.df ELSE frame
    IN IF h.err
       THEN [data |-> frame, dq |-> frame, aliased |-> TRUE, dupReport |-> dups,
             nullReport |-> <<>>, validation |-> NONE, result |-> NONE]
       ELSE [data |-> repaired, dq |-> r.df, aliased |-> same, dupReport |-> dups,
             nullReport |-> nulls,
             validation |-> IF r.err THEN NONE
                            ELSE [expected_types |-> expected_data_types,
                                  value_ranges |-> value_ranges,
                                  report |-> validate_data_types_and_ranges(
                                                DatasetName, r.df,
                                                expected_data_types, value_ranges)],
             result |-> IF r.err THEN NONE ELSE repaired]

MaxPipeRows == 2
PipeRows == {RowFull, RowSameUrl, RowNoDate}
\* the staging file: the expected columns, or a file without the url column
PipeFrames ==
    LET full == {Frame(LoadCols, rows) : rows \in SeqsUpTo(PipeRows, MaxPipeRows)}
    IN full \cup {DropColumn(f, "url") : f \in full}

InitPipe ==
    /\ data \in PipeFrames
    /\ \E w \in {EmptyWh, SeededWh} : WhIdle(w)
    /\ dq = NONE /\ aliased = FALSE /\ dupReport = NoDuplicates /\ nullReport = <<>>
    /\ threshold = 0 /\ dqpc = "idle" /\ validation = NONE /\ imputation = NONE
    /\ pc = "start" /\ conn = "none" /\ exitStatus = -1
    /\ dimResult = "unset" /\ factCalled = FALSE
    /\ transformed_data = NONE /\ fatal = "none"

\* sys.exit(1) before the connection is opened
ExitEarly(step) ==
    /\ pc' = "exited" /\ exitStatus' = 1 /\ fatal' = step
    /\ UNCHANGED conn

\* close_db_connection() and then sys.exit(1); when closing raises, the
\* process ends on that error with the connection as it was
CloseAndExit(step) ==
    /\ pc' = "exited" /\ exitStatus' = 1
    /\ \E closed \in BOOLEAN :
        IF closed THEN conn' = "closed" /\ fatal' = step
        ELSE conn' = conn /\ fatal' = "close"

\* an exception nothing catches ends the process with status 1
Uncaught(step) ==
    /\ pc' = "crashed" /\ exitStatus' = 1 /\ fatal' = step
    /\ UNCHANGED conn

LoadConfig ==
    /\ pc = "start"
    /\ \E ok \in BOOLEAN :
        IF ok THEN pc' = "configured" /\ UNCHANGED <<conn, exitStatus, fatal>>
        ELSE ExitEarly("config")
    /\ UNCHANGED <<dqVars, whVars, dimResult, factCalled, transformed_data>>

InitializeDbConnection ==
    /\ pc = "configured"
    /\ \E ok \in BOOLEAN :
        IF ok THEN pc' = "connected" /\ conn' = "open" /\ UNCHANGED <<exitStatus, fatal>>
        ELSE ExitEarly("connect")
    /\ UNCHANGED <<dqVars, whVars, dimResult, factCalled, transformed_data>>

\* success = extractor.extract_data(csv_file, staging_file)
ExtractData ==
    /\ pc = "connected"
    /\ \E success \in BOOLEAN :
        IF success THEN pc' = "extracted" /\ UNCHANGED <<conn, exitStatus, fatal>>
        ELSE CloseAndExit("extract")
    /\ UNCHANGED <<dqVars, whVars, dimResult, factCalled, transformed_data>>

\* data = transformer.process_data(staging_file)
ProcessData ==
    /\ pc = "extracted"
    /\ \E read \in BOOLEAN :
        IF read THEN pc' = "staged" /\ UNCHANGED <<conn, exitStatus, fatal>>
        ELSE CloseAndExit("process")
    /\ UNCHANGED <<dqVars, whVars, dimResult, factCalled, transformed_data>>

\* transformed_data = transformer.transform_data(data)
TransformData ==
    /\ pc = "staged"
    /\ LET t == transform_data(data) IN
        /\ data' = t.data
        /\ dq' = t.dq
        /\ aliased' = t.aliased
        /\ dupReport' = t.dupReport
        /\ nullReport' = t.nullReport
        /\ transformed_data' = t.result
        /\ validation' = t.validation
    /\ threshold' = CallerThreshold
    /\ dqpc' = "returned"
    /\ pc' = "transformed"
    /\ UNCHANGED <<imputation, whVars, conn, exitStatus, dimResult, factCalled, fatal>>

\* transformed_data.to_parquet(...): an AttributeError when transform_data
\* returned None, and a write can fail; neither is caught
ToParquet ==
    /\ pc = "transformed"
    /\ IF transformed_data = NONE THEN Uncaught("transform")
       ELSE \E written \in BOOLEAN :
            IF written THEN pc' = "saved" /\ UNCHANGED <<conn, exitStatus, fatal>>
            ELSE Uncaught("save")
    /\ UNCHANGED <<dqVars, whVars, dimResult, factCalled, transformed_data>>

\* `if not success_dim` (the test of success_fact is the same)
LoadFailedIgnored(success) == FALSE
LoadFailed(success) == ~success

\* success_dim = loader.load_to_dimension_tables(transformed_data)
LoadDimensions ==
    /\ pc = "saved"
    /\ \E f \in 0..load_to_dimension_tables(wh, transformed_data, 0).n :
        LET r == load_to_dimension_tables(wh, transformed_data, f) IN
        /\ Called("dim", r, f)
        /\ dimResult' = IF r.ok THEN "success" ELSE "failure"
        /\ IF LoadFailed(r.ok) THEN CloseAndExit("dim")
           ELSE pc' = "dims_loaded" /\ UNCHANGED <<conn, exitStatus, fatal>>
    /\ UNCHANGED <<dqVars, factCalled, transformed_data>>

\* success_fact = loader.load_to_fact_table(transformed_data)
LoadFacts ==
    /\ pc = "dims_loaded"
    /\ factCalled' = TRUE
    /\ \E f \in 0..load_to_fact_table(wh, transformed_data, 0).n :
        LET r == load_to_fact_table(wh, transformed_data, f) IN
        /\ Called("fact", r, f)
        /\ IF LoadFailed(r.ok) THEN CloseAndExit("fact")
           ELSE pc' = "facts_loaded" /\ UNCHANGED <<conn, exitStatus, fatal>>
    /\ UNCHANGED <<dqVars, dimResult, transformed_data>>

\* the closing close_db_connection(); run returns and the process ends
Finish ==
    /\ pc = "facts_loaded"
    /\ \E closed \in BOOLEAN :
        IF closed
        THEN pc' = "done" /\ conn' = "closed" /\ exitStatus' = 0 /\ UNCHANGED fatal
        ELSE pc' = "exited" /\ exitStatus' = 1 /\ fatal' = "close" /\ UNCHANGED conn
    /\ UNCHANGED <<dqVars, whVars, dimResult, factCalled, transformed_data>>

NextPipe ==
    \/ LoadConfig
    \/ InitializeDbConnection
    \/ ExtractData
    \/ ProcessData
    \/ TransformData
    \/ ToParquet
    \/ LoadDimensions
    \/ LoadFacts
    \/ Finish

SpecPipe == InitPipe /\ [][NextPipe]_vars

-----------------------------------------------------------------------------
(* Properties of the loader (SpecLoad).                                    *)

DimTables == {"dim_date", "dim_category", "dim_source_category", "dim_tag", "dim_article"}
DimsOf(w) == [t \in DimTables |-> w[t]]

\* the natural keys a dimension table holds
DateKeys(w) == {r.date : r \in w.dim_date}
CategoryKeys(w) == {r.name : r \in w.dim_category}
SourceCategoryKeys(w) == {r.name : r \in w.dim_source_category}
TagKeys(w) == {r.name : r \in w.dim_tag}
ArticleKeys(w) == {r.url : r \in w.dim_article}
NaturalKeys(w) ==
    [dim_date |-> DateKeys(w), dim_category |-> CategoryKeys(w),
     dim_source_category |-> SourceCategoryKeys(w), dim_tag |-> TagKeys(w),
     dim_article |-> ArticleKeys(w)]
FactKeys(w) == {FactKey(f) : f \in w.fact_news}

\* no dimension table holds two rows with the same natural key
UniqueNaturalKeys(w) ==
    /\ Cardinality(DateKeys(w)) = Cardinality(w.dim_date)
    /\ Cardinality(CategoryKeys(w)) = Cardinality(w.dim_category)
    /\ Cardinality(SourceCategoryKeys(w)) = Cardinality(w.dim_source_category)
    /\ Cardinality(TagKeys(w)) = Cardinality(w.dim_tag)
    /\ Cardinality(ArticleKeys(w)) = Cardinality(w.dim_article)
\* no two fact rows share the 5-key tuple
UniqueFactKeys(w) == Cardinality(FactKeys(w)) = Cardinality(w.fact_news)

\* C1: a second load_to_dimension_tables in a row on the same row-set (the
\* first one not cut short by a failing database statement) inserts no row
\* into any dimension table, and no dimension table ever holds two rows with
\* the same natural key.
C1_DimLoadIdempotent ==
    /\ UniqueNaturalKeys(wh)
    /\ (prev.op = "dim" /\ ~prev.fault /\ last.op = "dim")
          => DimsOf(wh) = DimsOf(whBefore)

\* a second dimension load ran to its end after a first one that had
\* inserted rows into every dimension table
C1_Witness ==
    /\ prev.op = "dim" /\ ~prev.fault /\ prev.ok
    /\ last.op = "dim" /\ ~last.fault /\ last.ok
    /\ \A t \in DimTables : Cardinality(wh[t]) > Cardinality(wh0[t])
    /\ Cardinality(wh.dim_tag) >= 2

\* C2: a second load_to_fact_table in a row on the same row-set, the
\* dimensions loaded, adds no fact row and returns True unless a database
\* statement fails; the 5-key tuple is unique in every state, and a fact
\* call leaves every fact row it found as it was (is_live and in_pagination
\* are those of the first insert).
C2_FactLoadIdempotent ==
    /\ UniqueFactKeys(wh)
    /\ last.op = "fact" => whBefore.fact_news \subseteq wh.fact_news
    /\ (prev.op = "fact" /\ ~prev.fault /\ last.op = "fact")
          => /\ wh.fact_news = whBefore.fact_news
             /\ ~last.fault => last.ok

\* a second fact load ran to its end on a warehouse in which two rows of the
\* row-set met on one 5-key tuple with different `live` values
C2_Witness ==
    /\ prev.op = "fact" /\ ~prev.fault /\ prev.ok
    /\ last.op = "fact" /\ ~last.fault /\ last.ok
    /\ Len(data.rows) = 2 /\ data.rows[1].live # data.rows[2].live
    /\ data.rows[1].url = data.rows[2].url
    /\ Cardinality(wh.fact_news) > Cardinality(wh0.fact_news)
    /\ \E f \in wh.fact_news \ wh0.fact_news : f.is_live = (data.rows[1].live = S("Yes"))

\* one uninterrupted run of the load from the starting warehouse: the
\* dimension load and, when it succeeds, the fact load
FullLoad(w, df) ==
    LET d == load_to_dimension_tables(w, df, 0) IN
    IF d.ok THEN load_to_fact_table(d.wh, df, 0).wh ELSE d.wh

\* the load has just run from its first statement to its end
UninterruptedEnd ==
    \/ RunJustCompleted
    \/ last.op = "dim" /\ ~last.fault /\ ~last.ok

\* C3: whatever calls were cut short before, a load that runs from its start
\* to its end leaves the natural keys and the fact 5-keys of one
\* uninterrupted run from the starting warehouse, none twice; and once an
\* uninterrupted load has completed, a further call adds no row.
C3_RerunConverges ==
    /\ UninterruptedEnd =>
          /\ NaturalKeys(wh) = NaturalKeys(FullLoad(wh0, data))
          /\ FactKeys(wh) = FactKeys(FullLoad(wh0, data))
          /\ UniqueNaturalKeys(wh) /\ UniqueFactKeys(wh)
    /\ hist.completed => wh = whBefore

\* a full load finished after an earlier call of the same load had been cut
\* short with rows already inserted
C3_Witness ==
    /\ RunJustCompleted
    /\ hist.faulted
    /\ wh.fact_news # wh0.fact_news
    /\ whBefore # wh0

\* a further call after a completed load
C3_WitnessCompleted ==
    hist.completed /\ last.op = "fact" /\ wh.fact_news # wh0.fact_news

\* the row of a dimension that carries a surrogate key
ById(table, field, id) == {r \in table : r[field] = id}

\* every key of the fact row is the surrogate key of a dimension row
ForeignKeysExist(w, f) ==
    /\ ById(w.dim_article, "news_id", f.news_id) # {}
    /\ ById(w.dim_date, "date_id", f.date_id) # {}
    /\ ById(w.dim_category, "category_id", f.category_id) # {}
    /\ ById(w.dim_source_category, "source_category_id", f.source_category_id) # {}
    /\ ById(w.dim_tag, "tag_id", f.tag_id) # {}

\* the fact row links the dimension rows of the input row's own category,
\* source category, date and article, and one of its tags
FactOfRow(w, f, df, row) ==
    /\ notna(RowGet(df, row, "updated"))
    /\ \E r \in ById(w.dim_category, "category_id", f.category_id) :
          r.name = RowGet(df, row, "category")
    /\ \E r \in ById(w.dim_source_category, "source_category_id", f.source_category_id) :
          r.name = RowGet(df, row, "source_category")
    /\ \E r \in ById(w.dim_date, "date_id", f.date_id) :
          r.date = parse_date(row["updated"])
    /\ \E r \in ById(w.dim_article, "news_id", f.news_id) :
          r.url = RowGet(df, row, "url")
    /\ notna(RowGet(df, row, "tags"))
    /\ \E r \in ById(w.dim_tag, "tag_id", f.tag_id) :
          \E k \in DOMAIN ParseTags(row["tags"]) : r.name = ParseTags(row["tags"])[k]

\* C4: every key of every fact row is the surrogate key of an existing
\* dimension row, and every fact row a load_to_fact_table call added belongs
\* to an input row whose category, source category, date and article were
\* all found (a row with a miss adds none).
C4_NoPartialFactRow ==
    /\ \A f \in wh.fact_news : ForeignKeysExist(wh, f)
    /\ last.op = "fact" =>
          \A f \in wh.fact_news \ whBefore.fact_news :
              \E i \in DOMAIN data.rows : FactOfRow(wh, f, data, data.rows[i])

\* rows with a missing category, a missing source category and a missing
\* article went through a fact load that added the row of another input row
C4_Witness ==
    /\ last.op = "fact" /\ last.ok
    /\ wh.fact_news # whBefore.fact_news
    /\ \E i \in DOMAIN data.rows :
          \/ isna(data.rows[i].category)
          \/ isna(data.rows[i].source_category)
          \/ isna(data.rows[i].title)

\* the rows of the frame before the first one whose date no parser reads
RECURSIVE RowsBeforeBadDate(_, _)
RowsBeforeBadDate(df, i) ==
    IF i > Len(df.rows) THEN {}
    ELSE IF notna(RowGet(df, df.rows[i], "updated")) /\ parse_date(df.rows[i]["updated"]) = FAIL
         THEN {}
    ELSE {df.rows[i]} \cup RowsBeforeBadDate(df, i + 1)

\* the natural keys the fields of dated rows name
KeysOfRows(df, rows) ==
    LET dated == {r \in rows : notna(RowGet(df, r, "updated"))}
        Named(c) == {RowGet(df, r, c) : r \in {x \in dated : notna(RowGet(df, x, c))}}
    IN
    [dim_date |-> {parse_date(r["updated"]) : r \in dated},
     dim_category |-> Named("category"),
     dim_source_category |-> Named("source_category"),
     dim_tag |-> UNION {{ParseTags(r["tags"])[k] : k \in DOMAIN ParseTags(r["tags"])} :
                        r \in {x \in dated : notna(RowGet(df, x, "tags"))}},
     dim_article |-> {RowGet(df, r, "url") :
                        r \in {x \in dated : /\ notna(RowGet(df, x, "title"))
                                             /\ notna(RowGet(df, x, "description"))
                                             /\ notna(RowGet(df, x, "url"))}}]

AllTables == DimTables \cup {"fact_news"}

\* C10 as claimed: a load stage that reports failure leaves the tables as
\* they were before the stage began.
C10_NoPartialCommit == ~last.ok => wh = whBefore

\* C10, amended: a load stage commits statement by statement.  When it
\* reports failure, every row found before the stage is still there and the
\* rows inserted before the error stay: a dimension load stopped by an
\* unreadable date at row i holds exactly the natural keys of before plus
\* those of the rows before i, and a stage stopped by a failing statement
\* holds no row that the unfailing stage would not have inserted.
C10_CommittedRowsStay ==
    ~last.ok =>
        /\ \A t \in AllTables : whBefore[t] \subseteq wh[t]
        /\ (last.op = "dim" /\ ~last.fault) =>
              \A t \in DimTables :
                 NaturalKeys(wh)[t] =
                    NaturalKeys(whBefore)[t]
                       \cup KeysOfRows(data, RowsBeforeBadDate(data, 1))[t]
        /\ (last.op = "dim" /\ last.fault) =>
              \A t \in AllTables : wh[t] \subseteq load_to_dimension_tables(whBefore, data, 0).wh[t]
        /\ (last.op = "fact" /\ last.fault) =>
              \A t \in AllTables : wh[t] \subseteq load_to_fact_table(whBefore, data, 0).wh[t]

\* a dimension load reported failure at an unreadable date after it had
\* inserted the rows of an earlier row
C10_Witness ==
    /\ last.op = "dim" /\ ~last.fault /\ ~last.ok
    /\ \A t \in DimTables : wh[t] # whBefore[t]

\* a fact load reported failure after it had inserted a fact row
C10_WitnessFact ==
    /\ last.op = "fact" /\ last.fault /\ ~last.ok
    /\ wh.fact_news # whBefore.fact_news

\* a row with a category, without a source category, dated readably
NoSourceRow(df, row) ==
    /\ notna(RowGet(df, row, "category"))
    /\ isna(RowGet(df, row, "source_category"))
    /\ notna(RowGet(df, row, "updated"))
    /\ parse_date(row["updated"]) # FAIL
WithoutNoSourceRows(df) ==
    [df EXCEPT !.rows = SelectSeq(@, LAMBDA r : ~NoSourceRow(df, r))]
SourceWarning == [miss |-> "source_category", value |-> NULL]

\* C11: for a row with a category, no source category and a readable date,
\* a dimension load that returns True has the row's date in dim_date and its
\* category in dim_category and has put no row for it into
\* dim_source_category (the table gained only names other rows carry); a
\* fact load that returns True has logged the source-category miss and left
\* fact_news as it would be without the row, the other rows' facts included.
C11_NoSourceRowSkipped ==
    /\ (last.op = "dim" /\ last.ok) =>
          \A i \in DOMAIN data.rows :
             NoSourceRow(data, data.rows[i]) =>
                /\ parse_date(data.rows[i]["updated"]) \in DateKeys(wh)
                /\ data.rows[i]["category"] \in CategoryKeys(wh)
                /\ SourceCategoryKeys(wh) \ SourceCategoryKeys(whBefore) \subseteq
                      {data.rows[j]["source_category"] :
                          j \in {k \in DOMAIN data.rows : notna(data.rows[k]["source_category"])}}
    /\ (last.op = "fact" /\ last.ok) =>
          /\ (\E i \in DOMAIN data.rows : NoSourceRow(data, data.rows[i]))
                => \E k \in DOMAIN last.log : last.log[k] = SourceWarning
          /\ wh.fact_news =
                load_to_fact_table(whBefore, WithoutNoSourceRows(data), 0).wh.fact_news

\* a fact load went over a row without source category and then added the
\* fact rows of the next row
C11_Witness ==
    /\ last.op = "fact" /\ last.ok
    /\ Len(data.rows) = 2
    /\ NoSourceRow(data, data.rows[1])
    /\ ~NoSourceRow(data, data.rows[2])
    /\ wh.fact_news # whBefore.fact_news
    /\ data.rows[1]["category"] \in CategoryKeys(wh)

\* the distinct tags of a row's tags field
TagsOf(df, row) ==
    IF isna(RowGet(df, row, "tags")) THEN {}
    ELSE {ParseTags(row["tags"])[k] : k \in DOMAIN ParseTags(row["tags"])}
\* a tag name as split, trimmed and kept: not empty, no comma, no blank at
\* either end
CleanTag(name) ==
    /\ name # <<>>
    /\ \A k \in DOMAIN name : name[k] # ","
    /\ name[1] # " " /\ name[Len(name)] # " "
DatedRows(df) ==
    {i \in DOMAIN df.rows : notna(RowGet(df, df.rows[i], "updated"))}
\* the fact rows that link the row's article, date, category and source
\* category with one of its tags
FactsOfRow(w, df, row) == {f \in w.fact_news : FactOfRow(w, f, df, row)}

\* C12: every tag name the loader stores is a trimmed, non-empty fragment
\* between commas; dim_tag holds one row per distinct name, and after a
\* dimension load that returns True it holds the names it held before and
\* the distinct tags of the dated rows, each once; fact_news holds for a row
\* at most one fact row per distinct tag of the row.
C12_OneRowPerDistinctTag ==
    /\ \A r \in wh.dim_tag : CleanTag(r.name)
    /\ Cardinality(TagKeys(wh)) = Cardinality(wh.dim_tag)
    /\ (last.op = "dim" /\ last.ok) =>
          /\ TagKeys(wh) = TagKeys(whBefore) \cup
                UNION {TagsOf(data, data.rows[i]) : i \in DatedRows(data)}
          /\ Cardinality(wh.dim_tag) =
                Cardinality(TagKeys(whBefore) \cup
                    UNION {TagsOf(data, data.rows[i]) : i \in DatedRows(data)})
    /\ last.op = "fact" =>
          \A i \in DOMAIN data.rows :
             Cardinality(FactsOfRow(wh, data, data.rows[i]))
                <= Cardinality(TagsOf(data, data.rows[i]))

\* a fact load ran over a row whose tags field names one tag twice and
\* another once: two dim_tag rows, two fact rows
C12_Witness ==
    /\ last.op = "fact" /\ last.ok
    /\ wh0 = EmptyWh
    /\ \E i \in DOMAIN data.rows :
          /\ notna(data.rows[i]["tags"])
          /\ Len(ParseTags(data.rows[i]["tags"])) = 3
          /\ Cardinality(TagsOf(data, data.rows[i])) = 2
          /\ Cardinality(FactsOfRow(wh, data, data.rows[i])) = 2
          /\ Cardinality(wh.dim_tag) = 2

\* C13: the loader only appends: whatever part of load_to_dimension_tables
\* or load_to_fact_table has run (to its end, or up to a failing statement),
\* every row a table held is still in it with every field as it was.
C13_AppendOnly ==
    [][\A t \in AllTables : wh[t] \subseteq wh'[t]]_vars

\* a call added rows to a warehouse that held rows of every table, one of
\* them the article the call's row-set names under another title
C13_Witness ==
    /\ \A t \in AllTables : whBefore[t] # {}
    /\ wh # whBefore
    /\ \E i \in DOMAIN data.rows : \E r \in whBefore.dim_article :
          /\ r.url = data.rows[i]["url"]
          /\ r.title # data.rows[i]["title"]
          /\ notna(data.rows[i]["updated"])

\* the orders of n rows, and a row-set in another order
RowOrders(n) == {p \in [1..n -> 1..n] : \A i, j \in 1..n : p[i] = p[j] => i = j}
Permuted(df, p) == [df EXCEPT !.rows = [i \in DOMAIN df.rows |-> df.rows[p[i]]]]

\* what the dimension tables hold, the surrogate keys left out
Contents(w) ==
    [dim_date |-> {[date |-> r.date, day |-> r.day, month |-> r.month, year |-> r.year] :
                      r \in w.dim_date},
     dim_category |-> CategoryKeys(w),
     dim_source_category |-> SourceCategoryKeys(w),
     dim_tag |-> TagKeys(w),
     dim_article |-> {[url |-> r.url, title |-> r.title, description |-> r.description] :
                         r \in w.dim_article}]

\* every dated row of the row-set has a date a parser reads
DatesReadable(df) == \A i \in DatedRows(df) : parse_date(df.rows[i]["updated"]) # FAIL

\* the row carries an article: a date, a title, a description and a url
ArticleRow(df, i) ==
    /\ i \in DatedRows(df)
    /\ notna(RowGet(df, df.rows[i], "title"))
    /\ notna(RowGet(df, df.rows[i], "description"))
    /\ notna(RowGet(df, df.rows[i], "url"))

\* C14 as claimed: a dimension load of the same rows in any other order,
\* from the same warehouse, leaves the same contents in every dimension
\* table, the surrogate keys aside.
C14_OrderIndependent ==
    (last.op = "dim" /\ ~last.fault) =>
        \A p \in RowOrders(Len(data.rows)) :
            Contents(load_to_dimension_tables(whBefore, Permuted(data, p), 0).wh)
               = Contents(wh)

\* C14, amended: when every dated row has a readable date, a dimension load
\* of the same rows in any other order, from the same warehouse, returns
\* True as well and leaves the same natural keys in every dimension table
\* and the same contents in every table but dim_article; a dim_article row
\* the load inserted has the title and description of the first row, in the
\* order loaded, that carries its url.
C14_KeysOrderIndependent ==
    (last.op = "dim" /\ ~last.fault /\ DatesReadable(data)) =>
        /\ last.ok
        /\ \A p \in RowOrders(Len(data.rows)) :
              LET other == load_to_dimension_tables(whBefore, Permuted(data, p), 0) IN
              /\ other.ok
              /\ NaturalKeys(other.wh) = NaturalKeys(wh)
              /\ \A t \in DimTables \ {"dim_article"} :
                    Contents(other.wh)[t] = Contents(wh)[t]
        /\ \A a \in wh.dim_article \ whBefore.dim_article :
              \E i \in DOMAIN data.rows :
                 /\ ArticleRow(data, i)
                 /\ data.rows[i]["url"] = a.url
                 /\ data.rows[i]["title"] = a.title
                 /\ data.rows[i]["description"] = a.description
                 /\ \A j \in 1..(i - 1) :
                       ArticleRow(data, j) => data.rows[j]["url"] # a.url

\* a dimension load inserted the article of two rows that carry one url
\* under two titles, and two categories
C14_Witness ==
    /\ last.op = "dim" /\ ~last.fault /\ last.ok
    /\ Len(data.rows) = 2
    /\ ArticleRow(data, 1) /\ ArticleRow(data, 2)
    /\ data.rows[1]["url"] = data.rows[2]["url"]
    /\ data.rows[1]["title"] # data.rows[2]["title"]
    /\ wh.dim_article # whBefore.dim_article

\* the first n rows of the row-set
FirstRows(df, n) == {df.rows[j] : j \in 1..n}

\* the dimension load stopped in row i: the natural keys of the rows before
\* i are in, and no key is in that neither was there before nor belongs to
\* the rows up to i
StoppedIn(i) ==
    \A t \in DimTables :
       /\ KeysOfRows(data, FirstRows(data, i - 1))[t] \subseteq NaturalKeys(wh)[t]
       /\ NaturalKeys(wh)[t] \subseteq
             NaturalKeys(whBefore)[t] \cup KeysOfRows(data, FirstRows(data, i))[t]

\* C21: a dimension load in which a database statement fails or a dated row
\* has a date no parser reads returns False, having stopped in one row: it
\* inserted nothing for the rows after that row (for an unreadable date:
\* nothing for the row itself either).  A load without such an error
\* returns True and holds, for every dated row, the keys of all the fields
\* the row has, whichever optional fields it or an earlier row lacks.
C21_HaltsOnErrorOnly ==
    last.op = "dim" =>
       /\ last.ok <=> (~last.fault /\ DatesReadable(data))
       /\ ~last.ok =>
             \E i \in DOMAIN data.rows :
                /\ StoppedIn(i)
                /\ FirstRows(data, i - 1) \subseteq RowsBeforeBadDate(data, 1)
                /\ ~last.fault => FirstRows(data, i - 1) = RowsBeforeBadDate(data, 1)
       /\ last.ok =>
             \A t \in DimTables :
                NaturalKeys(wh)[t] =
                   NaturalKeys(whBefore)[t]
                      \cup KeysOfRows(data, FirstRows(data, Len(data.rows)))[t]

\* a failing statement stopped a dimension load in its first row, after an
\* insert: nothing of the second row, which has a readable date, is in
C21_Witness ==
    /\ last.op = "dim" /\ last.fault /\ ~last.ok
    /\ wh0 = EmptyWh /\ whBefore = EmptyWh
    /\ Len(data.rows) = 2
    /\ wh.dim_date # {}
    /\ DatesReadable(data)
    /\ data.rows[2]["category"] \notin CategoryKeys(wh)
    /\ data.rows[2]["url"] \notin ArticleKeys(wh)
    /\ notna(data.rows[2]["category"]) /\ notna(data.rows[2]["url"])

\* a dimension load went past a row without category and a row without
\* title and inserted their other fields
C21_WitnessSoft ==
    /\ last.op = "dim" /\ last.ok
    /\ whBefore = EmptyWh
    /\ Len(data.rows) = 2
    /\ isna(data.rows[1]["category"]) /\ isna(data.rows[2]["title"])
    /\ Cardinality(wh.dim_date) = 2
    /\ wh.dim_article # {} /\ wh.dim_category # {}

\* the row-set without its rows that have no date
WithoutUndated(df) ==
    [df EXCEPT !.rows = SelectSeq(@, LAMBDA row : notna(RowGet(df, row, "updated")))]

\* C22: the rows without a date leave no trace: a loader call in which no
\* statement fails returns what it returns on the row-set without them and
\* leaves the warehouse it leaves without them, the rows after them loaded;
\* on a row-set of undated rows only it changes nothing and returns True.
C22_UndatedRowSkipped ==
    (last.op # "none" /\ ~last.fault) =>
       LET r == IF last.op = "dim"
                THEN load_to_dimension_tables(whBefore, WithoutUndated(data), 0)
                ELSE load_to_fact_table(whBefore, WithoutUndated(data), 0)
       IN /\ wh = r.wh
          /\ last.ok = r.ok
          /\ DatesReadable(data) => last.ok
          /\ WithoutUndated(data).rows = <<>> => (wh = whBefore /\ last.ok)

\* a fact load went over a row without a date and added the fact rows of
\* the row after it; nothing the undated row names is in the warehouse
C22_Witness ==
    /\ last.op = "fact" /\ last.ok
    /\ Len(data.rows) = 2
    /\ isna(data.rows[1]["updated"])
    /\ wh.fact_news # whBefore.fact_news
    /\ data.rows[1]["category"] \notin CategoryKeys(wh)
    /\ data.rows[1]["source_category"] \notin SourceCategoryKeys(wh)
    /\ data.rows[1]["url"] \notin ArticleKeys(wh)
    /\ TagsOf(data, data.rows[1]) \cap TagKeys(wh) = {}
    /\ \E k \in DOMAIN last.log : last.log[k].miss = "updated"

\* a dated row without title, description or url
NoArticleRow(df, i) ==
    /\ i \in DatedRows(df)
    /\ \/ isna(RowGet(df, df.rows[i], "title"))
       \/ isna(RowGet(df, df.rows[i], "description"))
       \/ isna(RowGet(df, df.rows[i], "url"))
\* the rows of the row-set that find no article in the warehouse: no
\* article field of theirs is complete and no article carries their url
ArticleMisses(w, df) ==
    {i \in DOMAIN df.rows : NoArticleRow(df, i) /\ df.rows[i]["url"] \notin ArticleKeys(w)}
WithoutRows(df, ix) ==
    [df EXCEPT !.rows =
        [k \in 1..Cardinality(DOMAIN df.rows \ ix) |->
            df.rows[CHOOSE i \in DOMAIN df.rows \ ix :
                       Cardinality({j \in DOMAIN df.rows \ ix : j < i}) = k - 1]]]

\* C23: no dim_article row has a null title, description or url.  A
\* dimension load that returns True has, for a dated row that lacks one of
\* the three, the row's date, category, source category and tags in their
\* tables, and has inserted an article with the row's url only when another
\* row carries that url with all three fields.  A fact load that returns
\* True leaves fact_news as it would be without the rows that lack one of
\* the three and whose url no article carries.
C23_IncompleteArticleSkipped ==
    /\ \A a \in wh.dim_article : notna(a.title) /\ notna(a.description) /\ notna(a.url)
    /\ (last.op = "dim" /\ last.ok) =>
          \A i \in DOMAIN data.rows :
             NoArticleRow(data, i) =>
                /\ parse_date(data.rows[i]["updated"]) \in DateKeys(wh)
                /\ notna(data.rows[i]["category"]) =>
                      data.rows[i]["category"] \in CategoryKeys(wh)
                /\ notna(data.rows[i]["source_category"]) =>
                      data.rows[i]["source_category"] \in SourceCategoryKeys(wh)
                /\ TagsOf(data, data.rows[i]) \subseteq TagKeys(wh)
                /\ data.rows[i]["url"] \in ArticleKeys(wh) \ ArticleKeys(whBefore) =>
                      \E j \in DOMAIN data.rows :
                         ArticleRow(data, j) /\ data.rows[j]["url"] = data.rows[i]["url"]
    /\ (last.op = "fact" /\ last.ok) =>
          wh.fact_news =
             load_to_fact_table(whBefore, WithoutRows(data, ArticleMisses(wh, data)), 0)
                .wh.fact_news

\* a fact load went over a row without title (its url in no article) or
\* without url, whose date, category, source category and tag are in their
\* tables, logged the article miss and added the fact rows of another row
C23_Witness ==
    /\ last.op = "fact" /\ last.ok
    /\ wh.fact_news # whBefore.fact_news
    /\ \E i \in ArticleMisses(wh, data) :
          /\ parse_date(data.rows[i]["updated"]) \in DateKeys(wh)
          /\ data.rows[i]["category"] \in CategoryKeys(wh)
          /\ data.rows[i]["source_category"] \in SourceCategoryKeys(wh)
          /\ TagsOf(data, data.rows[i]) # {}
          /\ TagsOf(data, data.rows[i]) \subseteq TagKeys(wh)
          /\ \E k \in DOMAIN last.log :
                last.log[k] = [miss |-> "article", value |-> data.rows[i]["url"]]

\* a row without title got fact rows: another row carries its url with a
\* title and a description
C23_WitnessSharedUrl ==
    /\ last.op = "fact" /\ last.ok
    /\ \E i \in DOMAIN data.rows :
          /\ NoArticleRow(data, i)
          /\ FactsOfRow(wh, data, data.rows[i]) \ whBefore.fact_news # {}

\* the rows whose tags field is null or holds commas and blanks only
Tagless(df) ==
    {i \in DOMAIN df.rows :
        \/ isna(RowGet(df, df.rows[i], "tags"))
        \/ \A k \in DOMAIN df.rows[i]["tags"].chars : df.rows[i]["tags"].chars[k] \in {",", " "}}
\* the category, source category, date and article of the row are in the
\* warehouse
LookupsSucceed(w, df, i) ==
    /\ i \in DatedRows(df)
    /\ RowGet(df, df.rows[i], "category") \in CategoryKeys(w)
    /\ RowGet(df, df.rows[i], "source_category") \in SourceCategoryKeys(w)
    /\ parse_date(df.rows[i]["updated"]) \in DateKeys(w)
    /\ RowGet(df, df.rows[i], "url") \in ArticleKeys(w)

\* C24: a fact load that returns True leaves fact_news as it would be
\* without the rows whose tags field is null or holds only empty fragments,
\* and alone such rows add nothing; every fact row a fact load adds links
\* one of the input rows, and the fact rows that link a row are never more
\* than the distinct tags of the row that dim_tag holds.
C24_NoTagsNoFacts ==
    last.op = "fact" =>
       /\ last.ok =>
             wh.fact_news =
                load_to_fact_table(whBefore, WithoutRows(data, Tagless(data)), 0).wh.fact_news
       /\ Tagless(data) = DOMAIN data.rows => wh.fact_news = whBefore.fact_news
       /\ wh.fact_news \ whBefore.fact_news \subseteq
             UNION {FactsOfRow(wh, data, data.rows[i]) : i \in DOMAIN data.rows}
       /\ \A i \in DOMAIN data.rows :
             Cardinality(FactsOfRow(wh, data, data.rows[i]))
                <= Cardinality(TagsOf(data, data.rows[i]) \cap TagKeys(wh))

\* a fact load went over a row without tags and a row of empty fragments,
\* all their lookups succeeding, and added no fact row
C24_Witness ==
    /\ last.op = "fact" /\ last.ok
    /\ Len(data.rows) = 2
    /\ isna(data.rows[1]["tags"]) /\ notna(data.rows[2]["tags"])
    /\ Tagless(data) = {1, 2}
    /\ LookupsSucceed(wh, data, 1) /\ LookupsSucceed(wh, data, 2)
    /\ wh.fact_news = whBefore.fact_news
    /\ last.log = <<>>

\* a fact load went over a row without tags, its lookups succeeding, and
\* added the fact rows of the other row
C24_WitnessOtherRow ==
    /\ last.op = "fact" /\ last.ok
    /\ Len(data.rows) = 2
    /\ 1 \in Tagless(data) /\ LookupsSucceed(wh, data, 1)
    /\ wh.fact_news # whBefore.fact_news

-----------------------------------------------------------------------------
(* Properties of the data-quality engine (SpecDQ).                         *)

SharedUrl(df) ==
    \E i, j \in DOMAIN df.rows : i < j /\ df.rows[i]["url"] = df.rows[j]["url"]

\* C5: after check_duplicates and then handle_duplicates on its report, the
\* dataset entry holds no two rows with the same url, and of the rows that
\* shared a url it holds the first.
C5_NoSharedUrl ==
    dqpc = "duplicates_handled" =>
        /\ ~SharedUrl(dq)
        /\ dq.rows = DropDuplicatesUrl(data).rows

\* C6: after handle_null_values on the report of check_null_values, every
\* reported column whose null percentage exceeds the threshold is gone, and
\* every other reported column is there and holds no null.
C6_DroppedOrFilled ==
    dqpc = "nulls_handled" =>
        \A k \in DOMAIN nullReport :
            IF ExceedsThreshold(nullReport[k].pct, threshold)
            THEN nullReport[k].Kolom \notin dq.cols
            ELSE /\ nullReport[k].Kolom \in dq.cols
                 /\ NullCount(dq, nullReport[k].Kolom) = 0

-----------------------------------------------------------------------------
(* Properties of the pipeline run (SpecPipe).                              *)

Ended == pc \in {"done", "exited", "crashed"}

\* C7: what transform_data returns, and run passes to the two loaders, is
\* the repairer's final dataset for 'bbc_df'.
C7_ReturnsRepaired ==
    (pc \notin {"start", "configured", "connected", "extracted", "staged"}
        /\ transformed_data # NONE)
    => transformed_data = dq

\* C8: a run that opened the connection and ended on a failed extraction,
\* transform step, dimension load or fact load has closed the connection
\* and ends with a non-zero status.
C8_ClosedOnFatal ==
    (Ended /\ fatal \in {"extract", "process", "transform", "dim", "fact"})
    => (conn = "closed" /\ exitStatus # 0)

\* C9: load_to_fact_table is called, and the fact table is written, only
\* after load_to_dimension_tables returned success in the run; after a
\* failure it is never called.
C9_FactsOnlyAfterDimensions ==
    /\ factCalled => dimResult = "success"
    /\ wh.fact_news # wh0.fact_news => dimResult = "success"
    /\ dimResult = "failure" => (~factCalled /\ last.op # "fact")
C9_Witness ==
    /\ factCalled /\ dimResult = "success" /\ wh.fact_news # wh0.fact_news
C9_WitnessFailure ==
    /\ dimResult = "failure" /\ Ended /\ ~factCalled /\ wh # wh0

-----------------------------------------------------------------------------
(* Properties of validate_data_types_and_ranges (SpecDQ).                  *)

\* the report rows of one check for one column
RowsFor(report, check, c) ==
    {k \in DOMAIN report : report[k].Check = check /\ report[k].Column = c}

\* the report has one 'Data Type' row for the column, a Pass exactly when
\* the dataset holds the column with the expected type
OneTypeRow(v, df, c) ==
    /\ Cardinality(RowsFor(v.report, "Data Type", c)) = 1
    /\ \A k \in RowsFor(v.report, "Data Type", c) :
          /\ v.report[k].Dataset = DatasetName
          /\ v.report[k].Status \in {"Pass", "Fail"}
          /\ v.report[k].Status = "Pass"
                <=> (c \in df.cols /\ df.dtype[c] = v.expected_types[c])

\* C15 as claimed: the report of a validation holds one 'Data Type' row for
\* every column named in expected_types, whether the dataset has the column
\* or not, a Pass exactly when the column has the expected type.
C15_TypeRowForEveryExpected ==
    [][validation' # validation =>
          \A c \in DOMAIN validation'.expected_types : OneTypeRow(validation', dq', c)]_vars

\* C15, amended: the report holds one 'Data Type' row for every column of
\* the dataset that expected_types names, a Pass exactly when the column's
\* type equals the expected one, and no 'Data Type' row for any other
\* column: a column expected_types names and the dataset lacks gets none.
C15_TypeRowForEveryExpectedColumn ==
    [][validation' # validation =>
          /\ \A c \in DOMAIN validation'.expected_types \cap dq'.cols :
                OneTypeRow(validation', dq', c)
          /\ \A k \in DOMAIN validation'.report :
                validation'.report[k].Check = "Data Type" =>
                   validation'.report[k].Column
                      \in DOMAIN validation'.expected_types \cap dq'.cols]_vars

\* a validation with the types transform_data expects, on a dataset with
\* an int64 year and neither day nor month: one row, a Pass
C15_Witness ==
    /\ validation # NONE
    /\ dqpc = "created"
    /\ DOMAIN validation.expected_types = {"year", "day", "month"}
    /\ "day" \notin dq.cols
    /\ Len(dq.rows) > 0
    /\ \E k \in DOMAIN validation.report :
          /\ validation.report[k].Check = "Data Type"
          /\ validation.report[k].Column = "year"
          /\ validation.report[k].Status = "Pass"

\* C16: a numeric column with a declared range gets one 'Value Range' row,
\* a Pass exactly when every non-null value lies in [min, max]; a column
\* that is not numeric gets none.
C16_RangePassIffNonNullInRange ==
    [][validation' # validation =>
          \A c \in DOMAIN validation'.value_ranges \cap dq'.cols :
             IF is_numeric_dtype(dq'.dtype[c])
             THEN /\ Cardinality(RowsFor(validation'.report, "Value Range", c)) = 1
                  /\ \A k \in RowsFor(validation'.report, "Value Range", c) :
                        validation'.report[k].Status = "Pass"
                           <=> \A i \in DOMAIN dq'.rows :
                                  notna(dq'.rows[i][c]) =>
                                     /\ NumGeq(dq'.rows[i][c], validation'.value_ranges[c][1])
                                     /\ NumLeq(dq'.rows[i][c], validation'.value_ranges[c][2])
             ELSE RowsFor(validation'.report, "Value Range", c) = {}]_vars

-----------------------------------------------------------------------------
(* Properties of the reports (SpecDQ).                                     *)

\* the number of rows of the frame equal to the row in every column
OccurrencesOfRow(df, row) == Cardinality({i \in DOMAIN df.rows : df.rows[i] = row})

\* C17: the report of check_duplicates holds, for every row value of the
\* dataset, one row less than the value has occurrences (every occurrence
\* but the first), each with the dataset name and the number of occurrences
\* of the value; and the call changes no dataset.
C17_DuplicateReport ==
    [][(dqpc = "created" /\ dqpc' = "duplicates_checked") =>
          /\ dq' = dq /\ data' = data /\ aliased' = aliased
          /\ \A i \in DOMAIN dq.rows :
                Cardinality({k \in DOMAIN dupReport'.rows :
                                dupReport'.rows[k].row = dq.rows[i]})
                   = OccurrencesOfRow(dq, dq.rows[i]) - 1
          /\ \A k \in DOMAIN dupReport'.rows :
                /\ dupReport'.rows[k].Dataset = DatasetName
                /\ OccurrencesOfRow(dq, dupReport'.rows[k].row) >= 2
                /\ dupReport'.rows[k].count
                      = N(OccurrencesOfRow(dq, dupReport'.rows[k].row))]_vars

\* the nulls of a column, counted on the rows
NullsIn(df, c) == Cardinality({i \in DOMAIN df.rows : df.rows[i][c] = NULL})

\* C18: check_null_values turns every value of the date-named column into a
\* timestamp or a null (a null stays a null) and leaves the other columns as
\* they were; its report has one row for every column that then holds a
\* null and none for the others, with the number of nulls and that number
\* over the number of rows times 100; the converted dataset is the one the
\* checker keeps.
C18_NullReport ==
    [][(dqpc = "duplicates_handled" /\ dqpc' = "nulls_checked") =>
          /\ dq'.cols = dq.cols /\ Len(dq'.rows) = Len(dq.rows)
          /\ \A c \in dq.cols \ {"updated"} :
                /\ dq'.dtype[c] = dq.dtype[c]
                /\ \A i \in DOMAIN dq.rows : dq'.rows[i][c] = dq.rows[i][c]
          /\ "updated" \in dq.cols =>
                /\ dq'.dtype["updated"] = "datetime64"
                /\ \A i \in DOMAIN dq.rows :
                      /\ dq'.rows[i]["updated"] = NULL \/ "ts" \in DOMAIN dq'.rows[i]["updated"]
                      /\ dq.rows[i]["updated"] = NULL => dq'.rows[i]["updated"] = NULL
          /\ \A c \in dq'.cols :
                Cardinality({k \in DOMAIN nullReport' : nullReport'[k].Kolom = c})
                   = IF NullsIn(dq', c) > 0 THEN 1 ELSE 0
          /\ \A k \in DOMAIN nullReport' :
                /\ nullReport'[k].Dataset = DatasetName
                /\ nullReport'[k].Kolom \in dq'.cols
                /\ nullReport'[k].nulls = NullsIn(dq', nullReport'[k].Kolom)
                /\ nullReport'[k].pct.num * Len(dq'.rows)
                      = nullReport'[k].nulls * 100 * nullReport'[k].pct.den]_vars

\* a date string that does not fit the format of the column became a null
\* and the column is reported together with a column that had a null before
C18_Witness ==
    /\ dqpc = "nulls_checked"
    /\ ~aliased
    /\ NullsIn(data, "updated") = 0
    /\ \E k \in DOMAIN nullReport : nullReport[k].Kolom = "updated" /\ nullReport[k].nulls = 1
    /\ \E k \in DOMAIN nullReport : nullReport[k].Kolom = "url"
    /\ \E i \in DOMAIN dq.rows : "ts" \in DOMAIN dq.rows[i]["updated"]
    /\ NullsIn(dq, "year") = 0

\* the columns handle_null_values imputes: reported, not over the threshold
Imputed(df, report, thr) ==
    {c \in df.cols : \E k \in DOMAIN report :
        report[k].Kolom = c /\ report[k].pct.num <= thr * report[k].pct.den}

\* a column with its nulls replaced by one value
Filled(df, c, fill) ==
    [i \in DOMAIN df.rows |-> IF df.rows[i][c] = NULL THEN fill ELSE df.rows[i][c]]

\* C19: a handle_null_values call that returns fills a reported column at or
\* under the threshold with the mean of its values when it is numeric and
\* the skewness is 0, with the median when it is numeric and the skewness is
\* anything else (undefined included), by interpolation when it is temporal,
\* and with the mode otherwise.
C19_ImputationByType ==
    [][(dqpc = "nulls_checked" /\ dqpc' = "nulls_handled") =>
          \A c \in Imputed(dq, nullReport, threshold) :
             LET vals == ColumnValues(dq, c)
                 after == ColumnValues(dq', c)
             IN /\ c \in dq'.cols
                /\ dq.dtype[c] \in {"int64", "float64"} =>
                      after = Filled(dq, c, IF SkewNonZero(vals) THEN Median(vals)
                                            ELSE Mean(vals))
                /\ dq.dtype[c] = "datetime64" => after = Interpolate(vals)
                /\ dq.dtype[c] \notin {"int64", "float64", "datetime64"} =>
                      after = Filled(dq, c, FirstMode(vals))]_vars

\* a numeric column of three values without skew was filled (with their
\* mean), next to a temporal and an object column that were filled too
C19_Witness ==
    /\ dqpc = "nulls_handled"
    /\ Imputed(dq, nullReport, threshold) = {"url", "year", "updated"}
    /\ Len(dq.rows) = 4
    /\ \A c \in dq.cols : NullsIn(dq, c) = 0
    /\ ~SkewNonZero(ColumnValues(dq, "year"))

\* a numeric column with skew was filled with its median, which its mean is not
C19_WitnessMedian ==
    /\ dqpc = "nulls_handled"
    /\ "year" \in Imputed(dq, nullReport, threshold)
    /\ Len(dq.rows) = 4
    /\ NullsIn(dq, "year") = 0
    /\ SkewNonZero(ColumnValues(dq, "year"))

\* the method names impute_value knows
KnownMethods == {"mean", "median", "mode", "interpolate"}

\* C20: an impute_value call with a method name it does not know raises and
\* leaves the column and the rest of the dataset as they were; once a call
\* has raised, no further call of the transform step runs on the dataset.
C20_UnknownMethodRaises ==
    [][/\ (imputation' # imputation /\ imputation'.method \notin KnownMethods) =>
             /\ dqpc' = "raised"
             /\ dq' = dq /\ data' = data
       /\ dqpc = "raised" =>
             /\ dqpc' = "raised" /\ dq' = dq /\ data' = data
             /\ dupReport' = dupReport /\ nullReport' = nullReport
             /\ validation' = validation]_vars

\* the call with the unknown name was made on a column that holds a null
C20_Witness ==
    /\ dqpc = "raised"
    /\ imputation # NONE
    /\ imputation.method \notin KnownMethods
    /\ NullsIn(dq, imputation.column) > 0

====
